---------------------------- MODULE Spec2Model ----------------------------
(***************************************************************************)
(* A model of common/gl_model.c (tyrquake): the model registry, the brush  *)
(* model loader's lump validation and cross references, the visibility     *)
(* decoder, the texture animation sequencing and the face texel extents.   *)
(*                                                                         *)
(* Each part of the loader has its own group of variables and its own      *)
(* specification; the variables of the other groups stay at their idle     *)
(* values there.                                                           *)
(***************************************************************************)
EXTENDS Integers, Sequences, FiniteSets, TLC

VARIABLES
    \* ---- model registry (gl_model.c:44-46) ----
    mod_known,      \* the claimed slots mod_known[0 .. mod_numknown-1], in order
    regFatal,       \* Sys_Error was called by a registry operation
    last,           \* what the last registry call did (its observable outcome)
    \* ---- Mod_LoadBrushModel: the header (gl_model.c:1143-1189) ----
    lumps,          \* header->lumps[]: fileofs and filelen of every lump
    filesize,       \* size: the length of the buffer
    lumpPc,         \* where Mod_LoadBrushModel stands
    \* ---- Mod_LoadBrushModel: the lump decoders (gl_model.c:1213-1229) ----
    loadmodel,      \* the arrays of *loadmodel the decoders have filled so far
    brushPc,        \* the decoder to run next, or how the load ended
    \* ---- Mod_DecompressVis (gl_model.c:121-155) ----
    visIn,          \* in: NULL, or the bytes of the compressed row
    numleafs,       \* model->numleafs
    decompressed,   \* static byte decompressed[MAX_MAP_LEAFS / 8]
    inpos,          \* in, as an index into the compressed row (from 1)
    outpos,         \* out - decompressed
    visOverrun,     \* a byte was written past the end of decompressed[]
    visPc,          \* where Mod_DecompressVis stands
    \* ---- animation sequencing of Mod_LoadTextures (gl_model.c:404-479) ----
    textures,       \* loadmodel->textures[], as filled by the first loop
    texI,           \* i of the sequencing loop
    texPc,          \* where the sequencing loop stands
    \* ---- CalcSurfaceExtents (gl_model.c:692-734) ----
    vertexes,       \* loadmodel->vertexes[].position
    surfedges,      \* loadmodel->surfedges[firstedge .. firstedge + numedges - 1]
    faceTexinfo,    \* *s->texinfo: vecs[2][4] and the TEX_SPECIAL flag
    surf,           \* s->texturemins[] and s->extents[]
    extPc,          \* where CalcSurfaceExtents stands
    \* ---- Mod_PointInLeaf (gl_model.c:90-113) ----
    pilModel,       \* model: NULL, or its nodes[] (NULL when there are none)
    pilPoint,       \* p
    pilNode,        \* node
    pilPath,        \* the values node has taken, in order
    pilPc,          \* where Mod_PointInLeaf stands
    \* ---- Mod_FloodFillSkin (gl_model.c:1386-1431) ----
    skin,           \* skin[0 .. skinwidth * skinheight - 1]
    skinAtEntry,    \* skin as it was when Mod_FloodFillSkin was called
    skinwidth,      \* skinwidth
    skinheight,     \* skinheight
    blackIndex,     \* the first i with d_8to24table[i] == 255, or -1 for none
    fillPc,         \* where Mod_FloodFillSkin stands
    \* ---- Mod_LoadAliasModel (gl_model.c:1530-1716) ----
    hunkLow,        \* the low mark of the hunk (Hunk_LowMark)
    aliasStart,     \* start
    pheader,        \* the fields of *pheader written so far, frames[] included
    posenum,        \* static int posenum
    stvertWrites,   \* the number of stverts[] records written, from index 0 up
    triWrites,      \* the number of triangles[] records written, from index 0 up
    aliasCache,     \* mod->cache.data: "NULL" or "data"
    aliasPc,        \* where Mod_LoadAliasModel stands
    \* ---- the sub-model loop of Mod_LoadBrushModel (gl_model.c:1236-1264) ----
    submodels,      \* mod->submodels[0 .. numsubmodels - 1], as Mod_LoadSubmodels left them
    subI,           \* i of the loop
    subMod,         \* mod, as an index into mod_known (from 1)
    knownAtEntry,   \* mod_known as it was when the loop began
    subPc,          \* where the loop stands
    \* ---- one face of Mod_LoadFaces ----
    faceVerts,      \* loadmodel->vertexes
    faceEdges,      \* the surfedges of the face
    faceSide,       \* in->side
    faceTex,        \* out->texinfo: vecs, the TEX_SPECIAL flag, texture->name
    faceSurf,       \* out: flags, texturemins, extents
    facePc,         \* where the pass over the face stands
    \* ---- Mod_LoadAllSkins ----
    skNumskins,     \* numskins
    skFile,         \* the skin records of the file, in order
    skPskintype,    \* pskintype, as a byte offset from its value at entry
    skSkin,         \* skin, as a byte offset (-1 before it is set)
    skI,            \* i
    skCalls,        \* the calls of Mod_FloodFillSkin and GL_LoadTexture, in order
    gl_texturenum,  \* GL_Aliashdr(pheader)->gl_texturenum
    skPc,           \* where Mod_LoadAllSkins stands
    \* ---- Mod_LoadNodes and Mod_MakeHull0 ----
    h0File,         \* the node lump: planenum and children of each dnode_t
    h0Leafs,        \* loadmodel->leafs[].contents
    h0Nodes,        \* loadmodel->nodes
    h0Clipnodes,    \* loadmodel->hulls[0].clipnodes
    h0I,            \* i of Mod_MakeHull0
    h0Pc            \* where the load stands

regVars == <<mod_known, regFatal, last>>
lumpVars == <<lumps, filesize, lumpPc>>
brushVars == <<loadmodel, brushPc>>
visVars == <<visIn, numleafs, decompressed, inpos, outpos, visOverrun, visPc>>
texVars == <<textures, texI, texPc>>
extVars == <<vertexes, surfedges, faceTexinfo, surf, extPc>>
leafVars == <<pilModel, pilPoint, pilNode, pilPath, pilPc>>
fillVars == <<skin, skinAtEntry, skinwidth, skinheight, blackIndex, fillPc>>
aliasVars == <<hunkLow, aliasStart, pheader, posenum, stvertWrites, triWrites, aliasCache, aliasPc>>
subVars == <<submodels, subI, subMod, knownAtEntry, subPc>>
faceVars == <<faceVerts, faceEdges, faceSide, faceTex, faceSurf, facePc>>
skinsVars == <<skNumskins, skFile, skPskintype, skSkin, skI, skCalls, gl_texturenum, skPc>>
hullVars == <<h0File, h0Leafs, h0Nodes, h0Clipnodes, h0I, h0Pc>>

\* The variables outside each group.
regOthers == <<lumpVars, brushVars, visVars, texVars, extVars, leafVars, fillVars, aliasVars, subVars, faceVars, skinsVars, hullVars>>
lumpOthers == <<regVars, brushVars, visVars, texVars, extVars, leafVars, fillVars, aliasVars, subVars, faceVars, skinsVars, hullVars>>
brushOthers == <<regVars, lumpVars, visVars, texVars, extVars, leafVars, fillVars, aliasVars, subVars, faceVars, skinsVars, hullVars>>
visOthers == <<regVars, lumpVars, brushVars, texVars, extVars, leafVars, fillVars, aliasVars, subVars, faceVars, skinsVars, hullVars>>
texOthers == <<regVars, lumpVars, brushVars, visVars, extVars, leafVars, fillVars, aliasVars, subVars, faceVars, skinsVars, hullVars>>
extOthers == <<regVars, lumpVars, brushVars, visVars, texVars, leafVars, fillVars, aliasVars, subVars, faceVars, skinsVars, hullVars>>
leafOthers == <<regVars, lumpVars, brushVars, visVars, texVars, extVars, fillVars, aliasVars, subVars, faceVars, skinsVars, hullVars>>
fillOthers == <<regVars, lumpVars, brushVars, visVars, texVars, extVars, leafVars, aliasVars, subVars, faceVars, skinsVars, hullVars>>
aliasOthers == <<regVars, lumpVars, brushVars, visVars, texVars, extVars, leafVars, fillVars, subVars, faceVars, skinsVars, hullVars>>
subOthers == <<lumpVars, brushVars, visVars, texVars, extVars, leafVars, fillVars, aliasVars, faceVars, skinsVars, hullVars>>
faceOthers == <<regVars, lumpVars, brushVars, visVars, texVars, extVars, leafVars, fillVars, aliasVars, subVars, skinsVars, hullVars>>
skinsOthers == <<regVars, lumpVars, brushVars, visVars, texVars, extVars, leafVars, fillVars, aliasVars, subVars, faceVars, hullVars>>
hullOthers == <<regVars, lumpVars, brushVars, visVars, texVars, extVars, leafVars, fillVars, aliasVars, subVars, faceVars, skinsVars>>

vars == <<regVars, lumpVars, brushVars, visVars, texVars, extVars, leafVars, fillVars, aliasVars, subVars, faceVars, skinsVars, hullVars>>

-----------------------------------------------------------------------------
(***************************************************************************)
(* MODEL REGISTRY                                                          *)
(***************************************************************************)

\* Capacity of the slot table (512 in the source), scaled down.
MAX_MOD_KNOWN == 2

\* Size of a slot's name buffer (MAX_QPATH, 64 in the engine), scaled down.
MAX_QPATH == 3

\* The largest number of sub-models a brush file of the registry model holds.
MaxSubmodels == 2

Min(a, b) == IF a < b THEN a ELSE b

\* A name is a sequence of characters.  LongName fills the whole name buffer
\* and so does not fit together with its terminating NUL.
LongName == [i \in 1 .. MAX_QPATH |-> "a"]

\* "%i" of snprintf(name, sizeof(name), "*%i", i + 1)
Digits(k) ==
    LET d(n) == CASE n = 0 -> "0" [] n = 1 -> "1" [] n = 2 -> "2" [] n = 3 -> "3"
                  [] n = 4 -> "4" [] n = 5 -> "5" [] n = 6 -> "6" [] n = 7 -> "7"
                  [] n = 8 -> "8" [] n = 9 -> "9"
    IN  IF k < 10 THEN <<d(k)>> ELSE <<d(k \div 10), d(k % 10)>>

SubmodelName(k) == <<"*">> \o Digits(k)

\* The names the callers of the registry pass in: the empty name, a short
\* name, a name of MAX_QPATH characters and the name of the first inline model.
RequestNames == {<<>>, <<"a">>, LongName, SubmodelName(1)}

ModTypes == {"mod_brush", "mod_sprite", "mod_alias"}

\* A slot of the static (zero-initialised) table: type 0 is mod_brush.
ZeroSlot == [name |-> <<>>, needload |-> FALSE, type |-> "mod_brush", cache |-> "NULL"]

\* strncpy(mod->name, name, MAX_QPATH - 1); mod->name[MAX_QPATH - 1] = 0;
StoreName(name) == SubSeq(name, 1, Min(Len(name), MAX_QPATH - 1))

\* The search loop of Mod_FindName: the first slot whose name strcmp()s equal,
\* or mod_numknown + 1 when there is none.
SearchKnown(known, name) ==
    IF \E i \in 1 .. Len(known) : known[i].name = name
    THEN CHOOSE i \in 1 .. Len(known) :
            /\ known[i].name = name
            /\ \A j \in 1 .. i - 1 : known[j].name # name
    ELSE Len(known) + 1

\* Mod_FindName: the slot of `name', claimed when the search finds none.
Mod_FindName(known, name) ==
    IF name = <<>>
    THEN [fatal |-> TRUE, idx |-> 0, known |-> known, found |-> FALSE]
    ELSE LET i == SearchKnown(known, name)
         IN  IF i <= Len(known)
             THEN [fatal |-> FALSE, idx |-> i, known |-> known, found |-> TRUE]
             ELSE IF Len(known) = MAX_MOD_KNOWN
                  THEN [fatal |-> TRUE, idx |-> 0, known |-> known, found |-> FALSE]
                  ELSE [fatal |-> FALSE, idx |-> i, found |-> FALSE,
                        known |-> Append(known,
                                     [ZeroSlot EXCEPT !.name = StoreName(name),
                                                      !.needload = TRUE])]

\* Cache_Check(&mod->cache): the resident payload, or NULL.
Cache_Check(m) == m.cache


\* The test at the head of Mod_LoadModel: the file is read unless the slot is
\* loaded and either is no alias model or still has its payload in the cache.
NeedsFileIgnoringCache(m) == m.needload

NeedsFile(m) ==
    IF ~m.needload
    THEN IF m.type = "mod_alias"
         THEN Cache_Check(m) = "NULL"
         ELSE FALSE
    ELSE TRUE

\* What COM_LoadStackFile can find under a name: nothing, or a file whose
\* first four bytes select the alias, the sprite or (by default) the brush loader.
FileKinds == {"missing", "alias", "sprite", "brush"}

\* How a loader can end.  Every loader can hit a Sys_Error on its input; the
\* alias loader can also return with or without the block moved to the cache.
LoaderEnds(file) ==
    CASE file = "alias"  -> {"fatal", "cached", "nocache"}
      [] file = "sprite" -> {"fatal", "ok"}
      [] file = "brush"  -> {"fatal", "ok"}

\* Mod_LoadAliasModel on the slot record: mod->type = mod_alias, and the cache
\* entry filled by Cache_AllocPadded unless the allocation failed.
Mod_LoadAliasModel(m, how) ==
    IF how = "cached"
    THEN [m EXCEPT !.type = "mod_alias", !.cache = "data"]
    ELSE [m EXCEPT !.type = "mod_alias"]

\* Mod_LoadSpriteModel (not in this file): a sprite keeps its own data in the
\* cache pointer of the slot.
Mod_LoadSpriteModel(m) == [m EXCEPT !.type = "mod_sprite", !.cache = "data"]

\* The sub-model loop of Mod_LoadBrushModel, from sub-model i on: every
\* sub-model but the last copies the record into the slot named "*<i+1>" and
\* goes on with that slot.
RECURSIVE SetupSubmodels(_, _, _, _)
SetupSubmodels(known, cur, i, n) ==
    IF i >= n - 1
    THEN [fatal |-> FALSE, known |-> known]
    ELSE LET f == Mod_FindName(known, SubmodelName(i + 1))
         IN  IF f.fatal
             THEN [fatal |-> TRUE, known |-> known]
             ELSE SetupSubmodels(
                      [f.known EXCEPT ![f.idx] =
                          [f.known[cur] EXCEPT !.name = SubmodelName(i + 1)]],
                      f.idx, i + 1, n)

\* Mod_LoadBrushModel as the registry sees it: the type is set first, then
\* the lumps are decoded (how = "fatal" when a check fails), then the slots of
\* the n sub-models are set up.
Mod_LoadBrushModel(known, idx, how, n) ==
    LET k1 == [known EXCEPT ![idx].type = "mod_brush"]
    IN  IF how = "fatal"
        THEN [fatal |-> TRUE, known |-> k1]
        ELSE SetupSubmodels(k1, idx, 0, n)

\* The record of a registry call.
Call(op, name, crash, idx, found, probed, read, file, loader, ret) ==
    [op |-> op, name |-> name, crash |-> crash, idx |-> idx, found |-> found,
     probed |-> probed, read |-> read, file |-> file, loader |-> loader,
     ret |-> ret]

NoCall == Call("none", <<>>, FALSE, 0, FALSE, FALSE, FALSE, "none", "none", "void")

\* The table Mod_LoadModel leaves when COM_LoadStackFile returns NULL: it
\* returns (or calls Sys_Error) before it writes to the slot.
MissingFileMarksLoaded(known, idx) == [known EXCEPT ![idx].needload = FALSE]

MissingFile(known, idx) == known

\* Mod_LoadModel(mod, crash) on slot idx of `known': the set of ways the call
\* can end, each with the table it leaves, whether Sys_Error was called and the
\* record of the call.  op, name and found are those of the caller.
Mod_LoadModel(known, idx, crash, op, name, found) ==
    LET m      == known[idx]
        probed == ~m.needload /\ m.type = "mod_alias"
        k0     == [known EXCEPT ![idx].needload = FALSE]
        Run(file, how, n) ==
            CASE file = "alias" ->
                   [fatal |-> how = "fatal",
                    known |-> IF how = "fatal" THEN k0
                              ELSE [k0 EXCEPT ![idx] = Mod_LoadAliasModel(k0[idx], how)]]
              [] file = "sprite" ->
                   [fatal |-> how = "fatal",
                    known |-> IF how = "fatal" THEN k0
                              ELSE [k0 EXCEPT ![idx] = Mod_LoadSpriteModel(k0[idx])]]
              [] file = "brush" ->
                   Mod_LoadBrushModel(k0, idx, how, n)
    IN  IF ~NeedsFile(m)
        THEN {[known |-> known, fatal |-> FALSE,
               call |-> Call(op, name, crash, idx, found, probed, FALSE,
                             "none", "none", "mod")]}
        ELSE {[known |-> MissingFile(known, idx), fatal |-> crash,
               call |-> Call(op, name, crash, idx, found, probed, TRUE,
                             "missing", "none", IF crash THEN "fatal" ELSE "NULL")]}
             \cup
             {[known |-> Run(x[1], x[2], x[3]).known,
               fatal |-> Run(x[1], x[2], x[3]).fatal,
               call  |-> Call(op, name, crash, idx, found, probed, TRUE, x[1], x[1],
                              IF Run(x[1], x[2], x[3]).fatal THEN "fatal" ELSE "mod")] :
                 x \in {y \in (FileKinds \ {"missing"}) \X {"fatal", "cached", "nocache", "ok"}
                                 \X (0 .. MaxSubmodels) :
                           /\ y[2] \in LoaderEnds(y[1])
                           /\ (y[1] # "brush" \/ y[2] = "fatal") => y[3] = 0}}

\* The body of the loop of Mod_ClearAll, on one slot.
ClearSlotAliasToo(m) ==
    [m EXCEPT !.needload = TRUE,
              !.cache = IF m.type = "mod_sprite" THEN "NULL" ELSE m.cache]

ClearSlot(m) ==
    LET m1 == IF m.type # "mod_alias" THEN [m EXCEPT !.needload = TRUE] ELSE m
    IN  IF m1.type = "mod_sprite" THEN [m1 EXCEPT !.cache = "NULL"] ELSE m1

\* ---- the registry's operations ----

\* Mod_ForName(name, crash): Mod_FindName, then Mod_LoadModel on the slot.
Mod_ForName ==
    /\ ~regFatal
    /\ UNCHANGED regOthers
    /\ \E name \in RequestNames, crash \in BOOLEAN :
         LET f == Mod_FindName(mod_known, name)
         IN  IF f.fatal
             THEN /\ regFatal' = TRUE
                  /\ mod_known' = mod_known
                  /\ last' = Call("Load", name, crash, 0, FALSE, FALSE, FALSE,
                                  "none", "none", "fatal")
             ELSE \E o \in Mod_LoadModel(f.known, f.idx, crash, "Load", name, f.found) :
                    /\ mod_known' = o.known
                    /\ regFatal' = o.fatal
                    /\ last' = o.call

\* Mod_TouchModel(name): Mod_FindName, then a probe of the cache when the slot
\* is loaded and holds an alias model.
Mod_TouchModel ==
    /\ ~regFatal
    /\ UNCHANGED regOthers
    /\ \E name \in RequestNames :
         LET f == Mod_FindName(mod_known, name)
         IN  IF f.fatal
             THEN /\ regFatal' = TRUE
                  /\ mod_known' = mod_known
                  /\ last' = Call("Touch", name, FALSE, 0, FALSE, FALSE, FALSE,
                                  "none", "none", "fatal")
             ELSE /\ regFatal' = FALSE
                  /\ mod_known' = f.known
                  /\ last' = Call("Touch", name, FALSE, f.idx, f.found,
                                  ~f.known[f.idx].needload
                                      /\ f.known[f.idx].type = "mod_alias",
                                  FALSE, "none", "none", "void")

\* Mod_ClearAll()
Mod_ClearAll ==
    /\ ~regFatal
    /\ UNCHANGED regOthers
    /\ mod_known' = [i \in 1 .. Len(mod_known) |-> ClearSlot(mod_known[i])]
    /\ regFatal' = FALSE
    /\ last' = Call("ClearAll", <<>>, FALSE, 0, FALSE, FALSE, FALSE,
                    "none", "none", "void")

\* Mod_Extradata(mod) on a claimed slot: the payload when it is resident, else
\* Mod_LoadModel(mod, true), and a Sys_Error when that leaves no payload.
Mod_Extradata ==
    /\ ~regFatal
    /\ UNCHANGED regOthers
    /\ \E idx \in 1 .. Len(mod_known) :
         IF Cache_Check(mod_known[idx]) # "NULL"
         THEN /\ UNCHANGED <<mod_known, regFatal>>
              /\ last' = Call("Extradata", mod_known[idx].name, TRUE, idx, TRUE,
                              TRUE, FALSE, "none", "none", "data")
         ELSE \E o \in Mod_LoadModel(mod_known, idx, TRUE, "Extradata",
                                     mod_known[idx].name, TRUE) :
                LET nodata == ~o.fatal /\ o.known[idx].cache = "NULL"
                IN  /\ mod_known' = o.known
                    /\ regFatal' = (o.fatal \/ nodata)
                    /\ last' = [o.call EXCEPT !.probed = TRUE,
                                  !.ret = IF o.fatal \/ nodata THEN "fatal" ELSE "data"]

\* The content cache (not in this file) frees the payload of an alias model
\* when it needs the room: Cache_Free sets the slot's cache pointer to NULL.
Cache_Evict ==
    /\ ~regFatal
    /\ UNCHANGED regOthers
    /\ \E idx \in 1 .. Len(mod_known) :
         /\ mod_known[idx].type = "mod_alias"
         /\ mod_known[idx].cache # "NULL"
         /\ mod_known' = [mod_known EXCEPT ![idx].cache = "NULL"]
    /\ regFatal' = FALSE
    /\ last' = Call("Evict", <<>>, FALSE, 0, FALSE, FALSE, FALSE,
                    "none", "none", "void")

RegInit ==
    /\ mod_known = <<>>
    /\ regFatal = FALSE
    /\ last = NoCall

-----------------------------------------------------------------------------
(***************************************************************************)
(* Properties of the registry                                              *)
(***************************************************************************)

RegTypeOK ==
    /\ Len(mod_known) <= MAX_MOD_KNOWN
    /\ \A i \in 1 .. Len(mod_known) :
         /\ mod_known[i].type \in ModTypes
         /\ mod_known[i].cache \in {"NULL", "data"}
         /\ mod_known[i].needload \in BOOLEAN
         /\ mod_known[i].name # <<>>

\* The slot a Load or Touch call worked on, as it was when Mod_FindName
\* returned it: the slot of the table before the call, or a slot just claimed
\* (marked as needing load, nothing else set).
SlotAtEntry(call) ==
    IF call.found
    THEN mod_known[call.idx]
    ELSE [name |-> SubSeq(call.name, 1, Min(Len(call.name), MAX_QPATH - 1)),
          needload |-> TRUE, type |-> "mod_brush", cache |-> "NULL"]

\* C3: two successive requests (Load or Touch) for the same name resolve to
\* the same slot, and the second one claims no slot.
C3_SecondRequestSameSlot ==
    [][ ( /\ last.op \in {"Load", "Touch"}
          /\ last'.op \in {"Load", "Touch"}
          /\ last.idx # 0
          /\ last'.idx # 0
          /\ last'.name = last.name )
        => ( last'.idx = last.idx /\ last'.found ) ]_vars

\* C3, for names that fit the name buffer (fewer than MAX_QPATH characters):
\* the second request finds the slot of the first.
C3_ShortNameSecondRequestSameSlot ==
    [][ ( /\ last.op \in {"Load", "Touch"}
          /\ last'.op \in {"Load", "Touch"}
          /\ last.idx # 0
          /\ last'.idx # 0
          /\ last'.name = last.name
          /\ Len(last.name) < MAX_QPATH )
        => ( last'.idx = last.idx /\ last'.found ) ]_vars

\* C4: a Load that resolved a slot reads the file exactly when the slot needs
\* load or holds an alias model whose payload is not resident; a loader runs
\* exactly when the file was read and found; otherwise Load returns the slot
\* and writes nothing to the table.
C4_LoadReadsFileIffNeeded ==
    [][ ( last'.op = "Load" /\ last'.idx # 0 )
        => LET m == SlotAtEntry(last')
           IN  /\ last'.read <=>
                    ( m.needload \/ (m.type = "mod_alias" /\ m.cache = "NULL") )
               /\ (last'.loader # "none") <=> (last'.read /\ last'.file # "missing")
               /\ ~last'.read =>
                    /\ last'.ret = "mod"
                    /\ last'.found
                    /\ mod_known' = mod_known ]_vars

\* C4 witness: a Load found an alias slot that was marked loaded, probed the
\* cache, found no payload and ran the alias loader again.
C4_AliasReloaded ==
    /\ last.op = "Load"
    /\ last.probed
    /\ last.read
    /\ last.loader = "alias"
    /\ ~regFatal

\* C5: when the file cannot be read, Load with crash = false returns NULL,
\* runs no loader and leaves the slot as Mod_FindName returned it, so that the
\* slot still asks for the file; with crash = true it ends in Sys_Error.
C5_MissingFile ==
    [][ ( last'.op = "Load" /\ last'.file = "missing" )
        => IF last'.crash
           THEN regFatal' /\ last'.ret = "fatal"
           ELSE LET m == SlotAtEntry(last')
                    a == mod_known'[last'.idx]
                IN  /\ ~regFatal'
                    /\ last'.ret = "NULL"
                    /\ last'.loader = "none"
                    /\ Len(mod_known') = Len(mod_known) + (IF last'.found THEN 0 ELSE 1)
                    /\ a.needload = m.needload
                    /\ a.type = m.type
                    /\ a.cache = m.cache
                    /\ ( a.needload \/ (a.type = "mod_alias" /\ a.cache = "NULL") )
                    /\ \A i \in 1 .. Len(mod_known) : mod_known'[i] = mod_known[i] ]_vars

\* C5 witness: a tolerant Load of a known slot returned "not found".
C5_NotFoundReturned ==
    /\ last.op = "Load"
    /\ last.file = "missing"
    /\ ~last.crash
    /\ last.found
    /\ last.ret = "NULL"
    /\ ~regFatal

\* C6: Mod_ClearAll marks every slot that is not an alias model as needing
\* load, leaves the flag of alias slots alone, clears the payload pointer of
\* sprite slots only, and keeps the number of slots, the names and the types.
C6_ClearAllEffect ==
    [][ last'.op = "ClearAll"
        => /\ Len(mod_known') = Len(mod_known)
           /\ \A i \in 1 .. Len(mod_known) :
                LET b == mod_known[i]
                    a == mod_known'[i]
                IN  /\ a.name = b.name
                    /\ a.type = b.type
                    /\ a.needload = (IF b.type = "mod_alias" THEN b.needload ELSE TRUE)
                    /\ a.cache = (IF b.type = "mod_sprite" THEN "NULL" ELSE b.cache) ]_vars

\* C6 witness: after Mod_ClearAll the table holds a loaded alias slot that
\* kept its payload next to a slot marked as needing load.
C6_ClearedWithAliasKept ==
    /\ last.op = "ClearAll"
    /\ \E i, j \in 1 .. Len(mod_known) :
         /\ mod_known[i].type = "mod_alias"
         /\ ~mod_known[i].needload
         /\ mod_known[i].cache = "data"
         /\ mod_known[j].type # "mod_alias"
         /\ mod_known[j].needload

\* C7: Mod_TouchModel leaves the table of slots as it was, reads no file and
\* runs no loader; it probes the cache only for a name that was known, loaded
\* and an alias model.
C7_TouchLeavesRegistry ==
    [][ last'.op = "Touch"
        => /\ mod_known' = mod_known
           /\ ~last'.read
           /\ last'.loader = "none"
           /\ last'.probed => last'.found ]_vars


-----------------------------------------------------------------------------
(***************************************************************************)
(* BRUSH MODEL LOADER: the header and the lump table                       *)
(***************************************************************************)

\* Number of lumps of the header (HEADER_LUMPS, 15 in the engine), scaled down.
HEADER_LUMPS == 2

\* Width in bits of the scaled-down int that holds fileofs, filelen and their sum.
IntBits == 4

INT_MAX == 2 ^ (IntBits - 1) - 1
INT_MIN == -(2 ^ (IntBits - 1))

\* The int a value wraps to in two's complement.
WrapInt(x) == ((x - INT_MIN) % (2 ^ IntBits)) + INT_MIN

\* int e = b + len.  A sum outside the range of int is undefined: the build
\* either wraps it or goes on with the exact value in a wider register.
IntSum(b, len) ==
    IF b + len \in INT_MIN .. INT_MAX THEN {b + len} ELSE {WrapInt(b + len), b + len}

\* The int compared with the unsigned long `size': a negative value converts
\* to a value above every buffer length.
AsUnsignedLong(x) == IF x < 0 THEN x + 2 ^ (2 * IntBits) ELSE x

\* The offsets and lengths a header can carry, and the buffer lengths.
LumpValues == {-1, 0, 2, 4, INT_MAX}
FileSizes == {4, 6}

LumpIds == 0 .. HEADER_LUMPS - 1

\* The sanity check of one lump's extents.
BadExtents(b1, e1, size) ==
    b1 > e1 \/ AsUnsignedLong(e1) > size \/ b1 < 0 \/ e1 < 0

\* The overlap test of the inner loop.
LumpsOverlap(b1, e1, b2, e2) ==
    (b1 < b2 /\ e1 > b2) \/ (b2 < b1 /\ e2 > b1)

\* The loop over the lumps: a Sys_Error as soon as a lump has bad extents or
\* overlaps another lump.  e[i] is the end computed for lump i.
LumpCheckFails(l, e, size) ==
    \E i \in LumpIds :
       \/ BadExtents(l[i].fileofs, e[i], size)
       \/ \E j \in LumpIds :
             LumpsOverlap(l[i].fileofs, e[i], l[j].fileofs, e[j])

\* Mod_LoadBrushModel up to the point where the lumps are decoded: the version
\* test, then the check of the lump extents.
Versions == {"BSPVERSION", "other"}

LumpInit ==
    /\ lumps \in [LumpIds -> [fileofs : LumpValues, filelen : LumpValues]]
    /\ filesize \in FileSizes
    /\ lumpPc = "version"

LumpIdle ==
    /\ lumps = <<>>
    /\ filesize = 0
    /\ lumpPc = "idle"

CheckVersion ==
    /\ lumpPc = "version"
    /\ \E version \in Versions :
         lumpPc' = IF version # "BSPVERSION" THEN "fatal" ELSE "extents"
    /\ UNCHANGED <<lumps, filesize>>
    /\ UNCHANGED lumpOthers

CheckLumpExtents ==
    /\ lumpPc = "extents"
    /\ \E e \in [LumpIds -> INT_MIN .. 2 * INT_MAX] :
         /\ \A i \in LumpIds : e[i] \in IntSum(lumps[i].fileofs, lumps[i].filelen)
         /\ lumpPc' = IF LumpCheckFails(lumps, e, filesize) THEN "fatal" ELSE "decode"
    /\ UNCHANGED <<lumps, filesize>>
    /\ UNCHANGED lumpOthers

\* Two lumps overlap: both are non-empty and they share a byte.
ShareByte(a, b) ==
    /\ a.filelen > 0
    /\ b.filelen > 0
    /\ a.fileofs < b.fileofs + b.filelen
    /\ b.fileofs < a.fileofs + a.filelen

\* A lump lies within the buffer.
WithinBuffer(a, size) ==
    /\ a.fileofs >= 0
    /\ a.fileofs <= size
    /\ a.fileofs + a.filelen >= 0
    /\ a.fileofs + a.filelen <= size

\* C1: the lump decoders run only when no two lumps overlap and every lump
\* lies within the buffer.
C1_DecodersRunOnlyOnDisjointLumps ==
    lumpPc = "decode" =>
        /\ \A i \in LumpIds : WithinBuffer(lumps[i], filesize)
        /\ \A i, j \in LumpIds : i # j => ~ShareByte(lumps[i], lumps[j])

\* C1, what the check does establish: every lump lies within the buffer, and
\* no two lumps that start at different offsets share a byte.
C1_DecodersRunOnlyOnLumpsInBuffer ==
    lumpPc = "decode" =>
        /\ \A i \in LumpIds : WithinBuffer(lumps[i], filesize)
        /\ \A i, j \in LumpIds :
             lumps[i].fileofs # lumps[j].fileofs => ~ShareByte(lumps[i], lumps[j])

-----------------------------------------------------------------------------
(***************************************************************************)
(* BRUSH MODEL LOADER: the decoders and the references they resolve        *)
(***************************************************************************)

\* Number of records in every lump of the brush files modelled here.
MaxRecords == 1

\* The indices a record can carry: one below and one above the array bounds.
FileIndices == -1 .. MaxRecords
\* The same read through (uint16_t)LittleShort(): no negative values.
FileIndices16 == 0 .. MaxRecords
\* The children of a node: p >= 0 is node p, p < 0 is leaf -1 - p.
ChildIndices == -(MaxRecords + 1) .. MaxRecords

RecordIds == 0 .. MaxRecords - 1

\* loadmodel before the decoders have run.
EmptyBrush ==
    [hastextures |-> FALSE, textures |-> <<>>, numtextures |-> 0, numplanes |-> 0,
     texinfo |-> <<>>, surfaces |-> <<>>, marksurfaces |-> <<>>,
     leafs |-> <<>>, nodes |-> <<>>]

\* Mod_LoadTextures, as far as the references need it: an empty lump leaves
\* loadmodel->textures NULL (hastextures false); else textures[i] is a
\* texture, or NULL for a dataofs of -1.
TextureLumps ==
    {[has |-> FALSE, t |-> <<>>]}
        \cup {[has |-> TRUE, t |-> f] : f \in [RecordIds -> {"NULL", "texture"}]}

Ref(kind, idx) == [kind |-> kind, idx |-> idx]

\* The texture a texinfo record resolves to (Mod_LoadTexinfo).  The set holds
\* the outcomes: "fatal" for the Sys_Error; "crash", NULL and a wild pointer
\* for the read below the start of loadmodel->textures, which is undefined.
ResolveTexture(m, miptex) ==
    IF ~m.hastextures
    THEN {Ref("notexture", 0)}
    ELSE IF miptex >= m.numtextures
         THEN {Ref("fatal", 0)}
         ELSE IF miptex < 0
              THEN {Ref("crash", 0), Ref("notexture", 0), Ref("wild", miptex)}
              ELSE IF m.textures[miptex] = "NULL"
                   THEN {Ref("notexture", 0)}
                   ELSE {Ref("texture", miptex)}

\* The node or leaf a child index of a node resolves to (Mod_LoadNodes).
ResolveChild(p) ==
    IF p >= 0 THEN Ref("node", p) ELSE Ref("leaf", -1 - p)

\* The face decoder reads through out->texinfo (CalcSurfaceExtents) and through
\* out->texinfo->texture (the name tests): defined only when both point at
\* an object.
FaceReadsDefined(m, ti) ==
    /\ ti \in DOMAIN m.texinfo
    /\ m.texinfo[ti].texture.kind # "wild"

\* The leaf decoder writes the flags of the faces firstmarksurface[0 ..
\* nummarksurfaces - 1]: defined only inside loadmodel->marksurfaces.
LeafWritesDefined(m, first, num) ==
    \A j \in 0 .. num - 1 : first + j \in DOMAIN m.marksurfaces

\* Mod_SetParent from node n: "ok" when the walk ends, "loop" when it comes
\* back to a node it is still in (the recursion never returns), "wild" when
\* it follows a child that lies outside its array.
RECURSIVE SetParentWalk(_, _, _)
SetParentWalk(m, n, path) ==
    IF n \in path
    THEN "loop"
    ELSE LET Sub(c) ==
                 IF c.kind = "leaf"
                 THEN IF c.idx \in DOMAIN m.leafs THEN "ok" ELSE "wild"
                 ELSE IF c.idx \in DOMAIN m.nodes
                      THEN SetParentWalk(m, c.idx, path \cup {n})
                      ELSE "wild"
             r0 == Sub(m.nodes[n].children[1])
         IN  IF r0 # "ok" THEN r0 ELSE Sub(m.nodes[n].children[2])

BrushInit ==
    /\ loadmodel = EmptyBrush
    /\ brushPc = "textures"

BrushIdle ==
    /\ loadmodel = EmptyBrush
    /\ brushPc = "idle"

\* The index of the first record at which a decoder stops (a Sys_Error or a
\* crash), or the number of records when it stops at none.
FirstStop(stops) ==
    IF \E i \in RecordIds : stops[i]
    THEN CHOOSE i \in RecordIds : stops[i] /\ \A j \in 0 .. i - 1 : ~stops[j]
    ELSE MaxRecords

\* Mod_LoadTextures
Mod_LoadTextures ==
    /\ brushPc = "textures"
    /\ \E l \in TextureLumps :
         loadmodel' = [loadmodel EXCEPT !.hastextures = l.has, !.textures = l.t,
                          !.numtextures = IF l.has THEN MaxRecords ELSE 0]
    /\ brushPc' = "planes"
    /\ UNCHANGED brushOthers

\* Mod_LoadPlanes
Mod_LoadPlanes ==
    /\ brushPc = "planes"
    /\ loadmodel' = [loadmodel EXCEPT !.numplanes = MaxRecords]
    /\ brushPc' = "texinfo"
    /\ UNCHANGED brushOthers

\* Mod_LoadTexinfo
Mod_LoadTexinfo ==
    /\ brushPc = "texinfo"
    /\ \E miptex \in [RecordIds -> FileIndices] :
       \E out \in [RecordIds -> UNION {ResolveTexture(loadmodel, k) : k \in FileIndices}] :
         /\ \A i \in RecordIds : out[i] \in ResolveTexture(loadmodel, miptex[i])
         /\ LET n == FirstStop([i \in RecordIds |-> out[i].kind \in {"fatal", "crash"}])
            IN  /\ loadmodel' = [loadmodel EXCEPT !.texinfo =
                                    [i \in 0 .. n - 1 |-> [texture |-> out[i]]]]
                /\ brushPc' = IF n = MaxRecords THEN "faces"
                              ELSE IF out[n].kind = "fatal" THEN "fatal" ELSE "crashed"
    /\ UNCHANGED brushOthers

\* Mod_LoadFaces.  The plane and the texinfo of a face are loadmodel->planes +
\* planenum and loadmodel->texinfo + texinfo, whatever the indices are.  how[i]
\* is how record i goes on: with a Sys_Error of CalcSurfaceExtents, or, where
\* the reads through out->texinfo are undefined, with a crash.
Mod_LoadFaces ==
    /\ brushPc = "faces"
    /\ \E planenum \in [RecordIds -> FileIndices],
          texinfo \in [RecordIds -> FileIndices],
          how \in [RecordIds -> {"ok", "fatal", "crash"}] :
         /\ \A i \in RecordIds :
              how[i] = "crash" => ~FaceReadsDefined(loadmodel, texinfo[i])
         /\ LET n == FirstStop([i \in RecordIds |-> how[i] # "ok"])
            IN  /\ loadmodel' = [loadmodel EXCEPT !.surfaces =
                                    [i \in 0 .. Min(n, MaxRecords - 1) |->
                                        [plane |-> planenum[i], texinfo |-> texinfo[i]]]]
                /\ brushPc' = IF n = MaxRecords THEN "marksurfaces"
                              ELSE IF how[n] = "fatal" THEN "fatal" ELSE "crashed"
    /\ UNCHANGED brushOthers

\* Mod_LoadMarksurfaces
Mod_LoadMarksurfaces ==
    /\ brushPc = "marksurfaces"
    /\ \E in \in [RecordIds -> FileIndices16] :
         LET n == FirstStop([i \in RecordIds |-> in[i] >= MaxRecords])
         IN  /\ loadmodel' = [loadmodel EXCEPT !.marksurfaces =
                                 [i \in 0 .. n - 1 |-> in[i]]]
             /\ brushPc' = IF n = MaxRecords THEN "leafs" ELSE "fatal"
    /\ UNCHANGED brushOthers

\* Mod_LoadLeafs.  touch[i]: the decoder sets SURF_UNDERWATER or SURF_DONTWARP
\* on the faces leaf i marks (its contents are not CONTENTS_EMPTY, or the
\* model is not the map); how[i] = "crash" is an outcome of a write that is
\* undefined.
Mod_LoadLeafs ==
    /\ brushPc = "leafs"
    /\ \E first \in [RecordIds -> FileIndices16],
          num \in [RecordIds -> FileIndices16],
          touch \in [RecordIds -> BOOLEAN],
          how \in [RecordIds -> {"ok", "crash"}] :
         /\ \A i \in RecordIds :
              how[i] = "crash" =>
                  touch[i] /\ ~LeafWritesDefined(loadmodel, first[i], num[i])
         /\ \A i \in RecordIds : num[i] = 0 => ~touch[i]
         /\ LET n == FirstStop([i \in RecordIds |-> how[i] # "ok"])
            IN  /\ loadmodel' = [loadmodel EXCEPT !.leafs =
                                    [i \in 0 .. Min(n, MaxRecords - 1) |->
                                        [firstmarksurface |-> first[i],
                                         nummarksurfaces |-> num[i]]]]
                /\ brushPc' = IF n = MaxRecords THEN "nodes" ELSE "crashed"
    /\ UNCHANGED brushOthers

\* Mod_LoadNodes, with the Mod_SetParent walk that ends it.  A walk that
\* never returns exhausts the stack; a walk through a child outside its array
\* is undefined, and may crash or return.
Mod_LoadNodes ==
    /\ brushPc = "nodes"
    /\ \E planenum \in [RecordIds -> FileIndices],
          c0 \in [RecordIds -> ChildIndices],
          c1 \in [RecordIds -> ChildIndices],
          wildcrash \in BOOLEAN :
         LET nodes == [i \in RecordIds |->
                          [plane |-> planenum[i],
                           children |-> <<ResolveChild(c0[i]), ResolveChild(c1[i])>>]]
             m     == [loadmodel EXCEPT !.nodes = nodes]
             walk  == SetParentWalk(m, 0, {})
         IN  /\ loadmodel' = m
             /\ (wildcrash => walk = "wild")
             /\ brushPc' = IF walk = "loop" \/ wildcrash THEN "crashed" ELSE "loaded"
    /\ UNCHANGED brushOthers

\* Every reference the decoders have stored points into the array it indexes.
TextureRefInRange(m, r) ==
    r.kind = "notexture" \/ (r.kind = "texture" /\ r.idx \in 0 .. m.numtextures - 1)

AllReferencesInRange(m) ==
    /\ \A i \in DOMAIN m.texinfo : TextureRefInRange(m, m.texinfo[i].texture)
    /\ \A i \in DOMAIN m.surfaces :
         /\ m.surfaces[i].plane \in 0 .. m.numplanes - 1
         /\ m.surfaces[i].texinfo \in DOMAIN m.texinfo
    /\ \A i \in DOMAIN m.marksurfaces : m.marksurfaces[i] \in DOMAIN m.surfaces
    /\ \A i \in DOMAIN m.leafs :
         m.leafs[i].firstmarksurface \in DOMAIN m.marksurfaces
    /\ \A i \in DOMAIN m.nodes :
         /\ m.nodes[i].plane \in 0 .. m.numplanes - 1
         /\ \A j \in 1 .. 2 :
              LET c == m.nodes[i].children[j]
              IN  IF c.kind = "node" THEN c.idx \in DOMAIN m.nodes
                                     ELSE c.idx \in DOMAIN m.leafs

\* C2: a load that does not end in a fatal error has resolved no index that
\* lies outside its array: when the decoders are through, every reference of
\* the model points into the array it indexes.
C2_NoOutOfRangeReference ==
    brushPc = "loaded" => AllReferencesInRange(loadmodel)

\* C2, for the indices the decoders do test: every mark-surface points at a
\* face of the model, and no texinfo points at a texture at or above
\* numtextures.
C2_CheckedReferencesInRange ==
    /\ \A i \in DOMAIN loadmodel.marksurfaces :
         loadmodel.marksurfaces[i] \in 0 .. MaxRecords - 1
    /\ \A i \in DOMAIN loadmodel.texinfo :
         LET r == loadmodel.texinfo[i].texture
         IN  r.kind \in {"texture", "wild"} => r.idx < loadmodel.numtextures

-----------------------------------------------------------------------------
(***************************************************************************)
(* VISIBILITY DECODER                                                      *)
(***************************************************************************)

\* sizeof(decompressed) = MAX_MAP_LEAFS / 8, scaled down.
VisBufBytes == 4

MAX_MAP_LEAFS == 8 * VisBufBytes

\* The longest compressed row of the model, in bytes.
MaxVisLen == 4

\* The byte values of the compressed rows: 0 opens a run, 3 and 255 are
\* literals and run lengths.
VisBytes == {0, 3, 255}

\* What decompressed[] holds from earlier calls: the zeros of static storage,
\* or bytes of an earlier row.
StaleBytes == {0, 170}

\* row = (model->numleafs + 7) >> 3
VisRowBytesTruncated(n) == n \div 8

VisRowBytes(n) == (n + 7) \div 8

\* The position in the compressed row at which the do-while loop stops when
\* started at position i with out bytes written, or -1 when the loop reads
\* past the end of the row.
RECURSIVE LoopEnd(_, _, _, _)
LoopEnd(bytes, i, out, row) ==
    IF i > Len(bytes)
    THEN -1
    ELSE IF bytes[i] # 0
         THEN IF out + 1 < row THEN LoopEnd(bytes, i + 1, out + 1, row) ELSE i + 1
         ELSE IF i + 1 > Len(bytes)
              THEN -1
              ELSE IF out + bytes[i + 1] < row
                   THEN LoopEnd(bytes, i + 2, out + bytes[i + 1], row)
                   ELSE i + 2

\* The compressed rows of a model with n leafs: the byte strings the loop
\* reads to their end and no further.
RowsFor(n) ==
    {b \in UNION {[1 .. k -> VisBytes] : k \in 1 .. MaxVisLen} :
        LoopEnd(b, 1, 0, VisRowBytes(n)) = Len(b) + 1}

\* decompressed[] after writing value v at offsets from .. from + count - 1;
\* the writes past the end of the array are not part of the array.
WriteBytes(buf, from, count, v) ==
    [k \in 0 .. VisBufBytes - 1 |->
        IF k >= from /\ k < from + count THEN v ELSE buf[k]]

\* model->numleafs at the call: the count Mod_LoadLeafs tested against
\* MAX_MAP_LEAFS, or the visleafs field of a sub-model, which line 1252
\* stores as it stands in the file.
LeafCounts == 0 .. MAX_MAP_LEAFS + 8

VisInit ==
    /\ numleafs \in LeafCounts
    /\ visIn \in {[null |-> TRUE, bytes |-> <<>>]}
                   \cup {[null |-> FALSE, bytes |-> b] : b \in RowsFor(numleafs)}
    /\ decompressed \in {[k \in 0 .. VisBufBytes - 1 |-> v] : v \in StaleBytes}
    /\ inpos = 1
    /\ outpos = 0
    /\ visOverrun = FALSE
    /\ visPc = "call"

VisIdle ==
    /\ numleafs = 0
    /\ visIn = [null |-> TRUE, bytes |-> <<>>]
    /\ decompressed = <<>>
    /\ inpos = 0
    /\ outpos = 0
    /\ visOverrun = FALSE
    /\ visPc = "idle"

\* The entry of Mod_DecompressVis: without a compressed row, `row' bytes of
\* 0xff and return; else into the loop.
DecompressNoVis ==
    /\ visPc = "call"
    /\ visIn.null
    /\ decompressed' = WriteBytes(decompressed, 0, VisRowBytes(numleafs), 255)
    /\ outpos' = VisRowBytes(numleafs)
    /\ visOverrun' = (VisRowBytes(numleafs) > VisBufBytes)
    /\ visPc' = "done"
    /\ UNCHANGED <<visIn, numleafs, inpos>>
    /\ UNCHANGED visOthers

DecompressEnterLoop ==
    /\ visPc = "call"
    /\ ~visIn.null
    /\ visPc' = "loop"
    /\ UNCHANGED <<visIn, numleafs, decompressed, inpos, outpos, visOverrun>>
    /\ UNCHANGED visOthers

\* One pass of the loop on a non-zero byte: *out++ = *in++; continue;
DecompressCopy ==
    /\ visPc = "loop"
    /\ visIn.bytes[inpos] # 0
    /\ decompressed' = WriteBytes(decompressed, outpos, 1, visIn.bytes[inpos])
    /\ visOverrun' = (visOverrun \/ outpos + 1 > VisBufBytes)
    /\ inpos' = inpos + 1
    /\ outpos' = outpos + 1
    /\ visPc' = IF outpos' < VisRowBytes(numleafs) THEN "loop" ELSE "done"
    /\ UNCHANGED <<visIn, numleafs>>
    /\ UNCHANGED visOthers

\* One pass of the loop on a zero byte: c = in[1]; in += 2; c zero bytes.
DecompressZeroRun ==
    /\ visPc = "loop"
    /\ visIn.bytes[inpos] = 0
    /\ LET c == visIn.bytes[inpos + 1]
       IN  /\ decompressed' = WriteBytes(decompressed, outpos, c, 0)
           /\ visOverrun' = (visOverrun \/ outpos + c > VisBufBytes)
           /\ outpos' = outpos + c
    /\ inpos' = inpos + 2
    /\ visPc' = IF outpos' < VisRowBytes(numleafs) THEN "loop" ELSE "done"
    /\ UNCHANGED <<visIn, numleafs>>
    /\ UNCHANGED visOthers

\* The reference decoder: every non-zero byte stands for itself, every pair
\* (0, c) for c zero bytes.
RECURSIVE Expand(_)
Expand(bytes) ==
    IF bytes = <<>>
    THEN <<>>
    ELSE IF bytes[1] # 0
         THEN <<bytes[1]>> \o Expand(Tail(bytes))
         ELSE [k \in 1 .. bytes[2] |-> 0] \o Expand(Tail(Tail(bytes)))

\* ceil(n / 8): the least k with 8 * k >= n.
CeilDiv8(n) == CHOOSE k \in 0 .. n : 8 * k >= n /\ 8 * (k - 1) < n

\* C8: when Mod_DecompressVis returns, having written inside decompressed[]
\* only, the first ceil(numleafs / 8) bytes of decompressed[] are 0xff when
\* there is no compressed row, and are the first bytes of the reference
\* decoder's output otherwise; [0, 3, 0xff] with 32 leafs gives
\* [0, 0, 0, 0xff].
C8_DecompressAgreesWithReference ==
    (visPc = "done" /\ ~visOverrun) =>
        /\ \A k \in 0 .. CeilDiv8(numleafs) - 1 :
              decompressed[k] = IF visIn.null THEN 255 ELSE Expand(visIn.bytes)[k + 1]
        /\ (visIn.null => outpos = CeilDiv8(numleafs))
        /\ (~visIn.null /\ visIn.bytes = <<0, 3, 255>> /\ numleafs = 32)
              => \A k \in 0 .. 3 : decompressed[k] = <<0, 0, 0, 255>>[k + 1]

\* C8 witness: the row [0, 3, 0xff] of a model with 32 leafs has been
\* decompressed over stale bytes.
C8_ExampleRowDecoded ==
    /\ visPc = "done"
    /\ ~visIn.null
    /\ visIn.bytes = <<0, 3, 255>>
    /\ numleafs = 32
    /\ ~visOverrun
    /\ \E v \in StaleBytes \ {0} : \A k \in 4 .. VisBufBytes - 1 : decompressed[k] = v
    /\ \A k \in 0 .. 3 : decompressed[k] = IF k = 3 THEN 255 ELSE 0

\* C21 as stated: every byte Mod_DecompressVis has written lies within the
\* first ceil(numleafs / 8) bytes of its output and within decompressed[].
C21_WritesWithinRowAndBuffer ==
    visPc \in {"loop", "done"} =>
        /\ outpos <= CeilDiv8(numleafs)
        /\ ~visOverrun

\* What does hold: a row without compressed data is written within the first
\* ceil(numleafs / 8) bytes, and within decompressed[] when numleafs is at
\* most MAX_MAP_LEAFS; a compressed row is written within both when the pass
\* that reaches the row end is a literal or a run ending there.
C21_WritesWithinRowWithoutOverlongRun ==
    visPc = "done" =>
        /\ visIn.null => outpos = CeilDiv8(numleafs)
        /\ (visIn.null /\ numleafs <= MAX_MAP_LEAFS) => ~visOverrun
        /\ (~visIn.null /\ numleafs > 0 /\ numleafs <= MAX_MAP_LEAFS
                /\ Len(Expand(visIn.bytes)) = CeilDiv8(numleafs)) =>
              (outpos = CeilDiv8(numleafs) /\ ~visOverrun)

\* A zero run has carried the writes past the end of decompressed[].
C21_ZeroRunPastBuffer ==
    /\ visPc = "done"
    /\ ~visIn.null
    /\ numleafs <= MAX_MAP_LEAFS
    /\ visOverrun

-----------------------------------------------------------------------------
(***************************************************************************)
(* TEXTURE ANIMATION SEQUENCING                                            *)
(***************************************************************************)

\* The most textures of a texture lump in the model.
MaxTextures == 3

ANIM_CYCLE == 2

\* The size of anims[] and altanims[].
AnimSlots == 0 .. 9

\* name[1] of the animating textures, as character codes: '0' '1' '2' 'A' 'B'
\* 'a' 'K'.
FrameChars == {48, 49, 50, 65, 66, 97, 75}

\* name + 2 of the animating textures.
Suffixes == {"ABC", "XY"}

\* A texture_t pointer is an index into textures[], NoTexture is NULL.
NoTexture == -1

\* The texture_t the first loop allocates (zeroed by Hunk_AllocName) and names.
NewTexture(plus, ch, suffix) ==
    [present |-> TRUE, plus |-> plus, ch |-> ch, suffix |-> suffix,
     anim_next |-> NoTexture, alternate_anims |-> NoTexture,
     anim_total |-> 0, anim_min |-> 0, anim_max |-> 0]

\* The entry of a miptex whose dataofs is -1: textures[i] stays NULL.
NullTexture ==
    [present |-> FALSE, plus |-> FALSE, ch |-> 0, suffix |-> "",
     anim_next |-> NoTexture, alternate_anims |-> NoTexture,
     anim_total |-> 0, anim_min |-> 0, anim_max |-> 0]

LoadedTextures ==
    {NullTexture, NewTexture(FALSE, 0, "")}
        \cup {NewTexture(TRUE, c, x) : c \in FrameChars, x \in Suffixes}

\* if (c >= 'a' && c <= 'z') c -= 'a' - 'A';
FoldCase(c) == IF c >= 97 /\ c <= 122 THEN c - (97 - 65) ELSE c

IsDigit(c) == c >= 48 /\ c <= 57

IsAltLetter(c) == c >= 65 /\ c <= 74

EmptyAnims == [k \in AnimSlots |-> NoTexture]

\* The frame tables after looking at texture i itself (lines 415-428).
FirstFrame(tx, i) ==
    LET c == FoldCase(tx[i + 1].ch)
    IN  IF IsDigit(c)
        THEN [bad |-> FALSE, max |-> c - 48 + 1, altmax |-> 0,
              anims |-> [EmptyAnims EXCEPT ![c - 48] = i], altanims |-> EmptyAnims]
        ELSE IF IsAltLetter(c)
             THEN [bad |-> FALSE, max |-> 0, altmax |-> c - 65 + 1,
                   anims |-> EmptyAnims, altanims |-> [EmptyAnims EXCEPT ![c - 65] = i]]
             ELSE [bad |-> TRUE, max |-> 0, altmax |-> 0,
                   anims |-> EmptyAnims, altanims |-> EmptyAnims]

\* The loop over the textures j after i (lines 430-452), from j on.
RECURSIVE GatherFrames(_, _, _, _)
GatherFrames(tx, i, j, g) ==
    IF g.bad \/ j >= Len(tx)
    THEN g
    ELSE IF ~tx[j + 1].present \/ ~tx[j + 1].plus \/ tx[j + 1].suffix # tx[i + 1].suffix
         THEN GatherFrames(tx, i, j + 1, g)
         ELSE LET num == FoldCase(tx[j + 1].ch)
              IN  IF IsDigit(num)
                  THEN GatherFrames(tx, i, j + 1,
                           [g EXCEPT !.anims[num - 48] = j,
                                     !.max = IF num - 48 + 1 > @ THEN num - 48 + 1 ELSE @])
                  ELSE IF IsAltLetter(num)
                       THEN GatherFrames(tx, i, j + 1,
                                [g EXCEPT !.altanims[num - 65] = j,
                                          !.altmax = IF num - 65 + 1 > @ THEN num - 65 + 1 ELSE @])
                       ELSE [g EXCEPT !.bad = TRUE]

\* One linking loop (lines 456-466 or 467-477) from j on, over the table
\* frames of count entries; other is the first frame of the other sequence
\* and otherCount its length.  The result is the texture array, or <<>> when
\* a frame is missing.
RECURSIVE LinkFrames(_, _, _, _, _, _)
LinkFrames(tx, frames, j, count, other, otherCount) ==
    IF j >= count
    THEN tx
    ELSE IF frames[j] = NoTexture
         THEN <<>>
         ELSE LinkFrames(
                  [tx EXCEPT ![frames[j] + 1] =
                      [@ EXCEPT !.anim_total = count * ANIM_CYCLE,
                                !.anim_min = j * ANIM_CYCLE,
                                !.anim_max = (j + 1) * ANIM_CYCLE,
                                !.anim_next = frames[(j + 1) % count],
                                !.alternate_anims = IF otherCount # 0 THEN other ELSE @]],
                  frames, j + 1, count, other, otherCount)

\* Both linking loops, on the frame tables g.
LinkAll(tx, g) ==
    LET first == LinkFrames(tx, g.anims, 0, g.max, g.altanims[0], g.altmax)
    IN  IF first = <<>>
        THEN <<>>
        ELSE LinkFrames(first, g.altanims, 0, g.altmax, g.anims[0], g.max)

\* The frame tables of the pass of the loop on texture texI.
FramesOfPass == GatherFrames(textures, texI, texI + 1, FirstFrame(textures, texI))

TexInit ==
    /\ textures \in UNION {[1 .. n -> LoadedTextures] : n \in 0 .. MaxTextures}
    /\ texI = 0
    /\ texPc = "sequence"

TexIdle ==
    /\ textures = <<>>
    /\ texI = 0
    /\ texPc = "idle"

\* i < m->nummiptex fails: the loop and Mod_LoadTextures end.
SequenceEnd ==
    /\ texPc = "sequence"
    /\ texI >= Len(textures)
    /\ texPc' = "done"
    /\ UNCHANGED <<textures, texI>>
    /\ UNCHANGED texOthers

\* A pass that continues at once: no texture, no '+', or already sequenced.
SequenceSkip ==
    /\ texPc = "sequence"
    /\ texI < Len(textures)
    /\ LET tx == textures[texI + 1]
       IN  ~tx.present \/ ~tx.plus \/ tx.anim_next # NoTexture
    /\ texI' = texI + 1
    /\ UNCHANGED <<textures, texPc>>
    /\ UNCHANGED texOthers

\* A pass that gathers the frames of the texture's animation and links them,
\* or ends in Sys_Error.
SequenceAnimation ==
    /\ texPc = "sequence"
    /\ texI < Len(textures)
    /\ LET tx == textures[texI + 1]
       IN  tx.present /\ tx.plus /\ tx.anim_next = NoTexture
    /\ LET g == FramesOfPass
           linked == LinkAll(textures, g)
       IN  IF g.bad \/ linked = <<>>
           THEN /\ texPc' = "fatal"
                /\ UNCHANGED <<textures, texI>>
           ELSE /\ textures' = linked
                /\ texI' = texI + 1
                /\ UNCHANGED texPc
    /\ UNCHANGED texOthers

\* The textures whose name begins with '+'.
Animating == {k \in 0 .. Len(textures) - 1 : textures[k + 1].present /\ textures[k + 1].plus}

InPrimary(k) == IsDigit(FoldCase(textures[k + 1].ch))

\* The frame number the name of texture k gives it in its sequence.
FrameNumber(k) ==
    IF InPrimary(k) THEN FoldCase(textures[k + 1].ch) - 48 ELSE FoldCase(textures[k + 1].ch) - 65

\* The textures of the sequence of texture k: same suffix, same kind of frame.
SequenceOf(k) ==
    {m \in Animating : /\ textures[m + 1].suffix = textures[k + 1].suffix
                       /\ InPrimary(m) = InPrimary(k)}

\* The number of frames of the sequence of k: one more than the greatest
\* frame number.
FrameCount(k) ==
    1 + (CHOOSE f \in AnimSlots : /\ \E m \in SequenceOf(k) : FrameNumber(m) = f
                                  /\ \A m \in SequenceOf(k) : FrameNumber(m) <= f)

\* The texture reached from k by following anim_next steps times.
RECURSIVE FollowNext(_, _)
FollowNext(k, steps) ==
    IF steps = 0 \/ k = NoTexture
    THEN k
    ELSE FollowNext(textures[k + 1].anim_next, steps - 1)

OnCircularList(k) ==
    LET t == textures[k + 1]
        n == FrameCount(k)
        j == FrameNumber(k)
    IN  /\ t.anim_total = n * ANIM_CYCLE
        /\ t.anim_min = j * ANIM_CYCLE
        /\ t.anim_max = (j + 1) * ANIM_CYCLE
        /\ t.anim_next \in SequenceOf(k)
        /\ FrameNumber(t.anim_next) = (j + 1) % n
        /\ FollowNext(k, n) = k
        /\ \A steps \in 1 .. n - 1 : FollowNext(k, steps) # k

NoGapBelow(k) ==
    \A f \in 0 .. FrameCount(k) - 1 : \E m \in SequenceOf(k) : FrameNumber(m) = f

\* No two textures of the lump are the same frame of the same sequence.
DistinctFrames ==
    \A k, m \in Animating :
        (m \in SequenceOf(k) /\ FrameNumber(m) = FrameNumber(k)) => m = k

\* C9: when the texture loader has returned, every texture whose name begins
\* with '+' is frame j of a circular anim_next list of the n frames of its
\* sequence, with anim_total = n * ANIM_CYCLE, anim_min = j * ANIM_CYCLE and
\* anim_max = (j + 1) * ANIM_CYCLE, and no sequence has a frame number below
\* its greatest without a texture (such a lump ends in Sys_Error).
C9_AnimatingTexturesOnCircularList ==
    texPc = "done" => \A k \in Animating : OnCircularList(k) /\ NoGapBelow(k)

\* The same for the lumps in which every frame of a sequence is given once.
C9_DistinctFramesOnCircularList ==
    (texPc = "done" /\ DistinctFrames) =>
        \A k \in Animating : OnCircularList(k) /\ NoGapBelow(k)

\* A gap ends the load in Sys_Error, whatever else the lump holds.
C9_GapIsFatal ==
    texPc = "done" => \A k \in Animating : NoGapBelow(k)

\* Three frames of one primary sequence have been linked.
C9_ThreeFramesLinked ==
    /\ texPc = "done"
    /\ DistinctFrames
    /\ \E k \in Animating : FrameCount(k) = 3 /\ InPrimary(k)

-----------------------------------------------------------------------------
(***************************************************************************)
(* SURFACE EXTENTS                                                         *)
(***************************************************************************)

\* The most edges of a face in the model.
MaxFaceEdges == 2

\* A value above every projection of the model, for FLT_MAX.
FLT_MAX == 2 ^ 20

\* The x coordinates of the vertices: spans of 16, 17 and 33 at both signs,
\* and one span above 256.
XCoords == {-33, -17, -1, 0, 16, 17, 272}

YCoords == {0, 16, 272}

Positions == {<<x, y, 0>> : x \in XCoords, y \in YCoords}

\* loadmodel->edges[]: edge 0 is never referenced, edge 1 joins vertex 0 to
\* vertex 1.
ModelEdges == <<[v |-> <<0, 0>>], [v |-> <<0, 1>>]>>

\* vecs[j][0..3] of the texinfos of the model.
AxisVecs == {<<<<sx, 0, 0, off>>, <<0, 1, 0, 0>>>> : sx \in {1, -1}, off \in {0, -3}}

\* The vertex a surfedge stands for (lines 707-710), as an index into
\* vertexes[].
SurfedgeVertex(e) ==
    IF e >= 0 THEN ModelEdges[e + 1].v[1] ELSE ModelEdges[-e + 1].v[2]

\* val of lines 713-715.
Project(pos, vec) == pos[1] * vec[1] + pos[2] * vec[2] + pos[3] * vec[3] + vec[4]

\* mins[j] and maxs[j] after the loop over the edges from i on (lines 706-721).
RECURSIVE ProjectedBounds(_, _, _, _, _)
ProjectedBounds(verts, edgelist, vec, i, b) ==
    IF i >= Len(edgelist)
    THEN b
    ELSE LET val == Project(verts[SurfedgeVertex(edgelist[i + 1]) + 1], vec)
         IN  ProjectedBounds(verts, edgelist, vec, i + 1,
                 [mins |-> IF val < b.mins THEN val ELSE b.mins,
                  maxs |-> IF val > b.maxs THEN val ELSE b.maxs])

\* (int)(x / 16) of an integer x: rounds toward zero.
TruncDiv16(x) == IF x >= 0 THEN x \div 16 ELSE -((-x) \div 16)

\* floor(x / 16)
FloorDiv16(x) == x \div 16

\* ceil(x / 16)
CeilDiv16(x) == -((-x) \div 16)

\* texturemins, extents and the Sys_Error test of one axis (lines 724-732).
AxisExtents(verts, edgelist, tex, j) ==
    LET b == ProjectedBounds(verts, edgelist, tex.vecs[j], 0,
                             [mins |-> FLT_MAX, maxs |-> -FLT_MAX])
        bmins == FloorDiv16(b.mins)
        bmaxs == CeilDiv16(b.maxs)
    IN  [texturemins |-> bmins * 16,
         extents |-> (bmaxs - bmins) * 16,
         bad |-> ~tex.special /\ (bmaxs - bmins) * 16 > 256]

ExtInit ==
    /\ vertexes \in [1 .. 2 -> Positions]
    /\ surfedges \in UNION {[1 .. n -> {1, -1}] : n \in 1 .. MaxFaceEdges}
    /\ faceTexinfo \in [vecs : AxisVecs, special : BOOLEAN]
    /\ surf = [texturemins |-> <<0, 0>>, extents |-> <<0, 0>>]
    /\ extPc = "call"

ExtIdle ==
    /\ vertexes = <<>>
    /\ surfedges = <<>>
    /\ faceTexinfo = [vecs |-> <<>>, special |-> FALSE]
    /\ surf = [texturemins |-> <<0, 0>>, extents |-> <<0, 0>>]
    /\ extPc = "idle"

\* The whole function: both axes, or Sys_Error at the first bad one.
CalcSurfaceExtents ==
    /\ extPc = "call"
    /\ LET a0 == AxisExtents(vertexes, surfedges, faceTexinfo, 1)
           a1 == AxisExtents(vertexes, surfedges, faceTexinfo, 2)
       IN  IF a0.bad
           THEN /\ surf' = [texturemins |-> <<a0.texturemins, surf.texturemins[2]>>,
                            extents |-> <<a0.extents, surf.extents[2]>>]
                /\ extPc' = "fatal0"
           ELSE /\ surf' = [texturemins |-> <<a0.texturemins, a1.texturemins>>,
                            extents |-> <<a0.extents, a1.extents>>]
                /\ extPc' = IF a1.bad THEN "fatal1" ELSE "done"
    /\ UNCHANGED <<vertexes, surfedges, faceTexinfo>>
    /\ UNCHANGED extOthers

\* The projections of the face's vertices on axis j, as a set.
FaceProjections(j) ==
    {Project(vertexes[SurfedgeVertex(surfedges[i]) + 1], faceTexinfo.vecs[j]) :
        i \in 1 .. Len(surfedges)}

ProjectedMin(j) == CHOOSE m \in FaceProjections(j) : \A v \in FaceProjections(j) : m <= v

ProjectedMax(j) == CHOOSE m \in FaceProjections(j) : \A v \in FaceProjections(j) : m >= v

\* The axes CalcSurfaceExtents has computed when it stands at extPc.
AxesComputed ==
    IF extPc = "fatal0" THEN {1} ELSE IF extPc \in {"fatal1", "done"} THEN {1, 2} ELSE {}

\* C10: on each axis CalcSurfaceExtents has computed, texturemins is the
\* multiple of 16 with texturemins <= m < texturemins + 16 (16 * floor(m / 16))
\* and texturemins + extents the multiple of 16 with M <= it < M + 16
\* (16 * ceil(M / 16)); a span M - m of 17 gives extents 32; and the function
\* ends in Sys_Error exactly when the face is not special and an axis it
\* computed has extents above 256.
C10_ExtentsRoundedToSixteen ==
    /\ \A j \in AxesComputed :
          LET m == ProjectedMin(j)
              M == ProjectedMax(j)
              lo == surf.texturemins[j]
              hi == surf.texturemins[j] + surf.extents[j]
          IN  /\ lo % 16 = 0 /\ lo <= m /\ m < lo + 16
              /\ hi % 16 = 0 /\ M <= hi /\ hi < M + 16
              /\ (M - m = 17 => surf.extents[j] = 32)
    /\ extPc \in {"fatal0", "fatal1", "done"} =>
          ((extPc # "done") <=>
              (~faceTexinfo.special /\ \E j \in AxesComputed : surf.extents[j] > 256))

\* C10 witness: an axis with a negative minimum and a span of 17 has been
\* computed, with extents 32.
C10_NegativeMinSpan17 ==
    /\ extPc = "done"
    /\ ProjectedMin(1) < 0
    /\ ProjectedMin(1) % 16 # 0
    /\ ProjectedMax(1) - ProjectedMin(1) = 17
    /\ surf.extents[1] = 32

\* A face that is not special ended in Sys_Error.
C10_BadSurfaceExtents ==
    /\ extPc = "fatal0"
    /\ ~faceTexinfo.special
    /\ surf.extents[1] > 256

-----------------------------------------------------------------------------
(***************************************************************************)
(* POINT IN LEAF                                                           *)
(***************************************************************************)

\* The most nodes of a render tree in the model.
MaxNodes == 2

\* The leafs of the render trees, with their contents (CONTENTS_EMPTY,
\* CONTENTS_SOLID).
TreeLeafs == <<[contents |-> -1], [contents |-> -2]>>

\* The planes of the nodes: x = 0 and y = 0.
TreePlanes == {[normal |-> <<1, 0, 0>>, dist |-> 0], [normal |-> <<0, 1, 0>>, dist |-> 0]}

TreePoints == {<<x, y, 0>> : x \in {-1, 0, 1}, y \in {-1, 1}}

\* A child pointer, as Mod_LoadNodes stores it: node idx or leaf idx.
NodeRef(idx) == [kind |-> "node", idx |-> idx]

LeafRef(idx) == [kind |-> "leaf", idx |-> idx]

\* The children node i of n can have in a tree: a later node, or a leaf.
ChildrenOf(i, n) ==
    {NodeRef(k) : k \in i + 1 .. n - 1} \cup {LeafRef(l) : l \in 0 .. Len(TreeLeafs) - 1}

\* The node arrays of n nodes that hold a tree: node 0 is the root, every
\* node is internal (contents 0) with two children.
RenderTrees(n) ==
    {t \in [1 .. n -> [contents : {0}, plane : TreePlanes,
                       children : [1 .. 2 -> ChildrenOf(0, n)]]] :
        \A i \in 1 .. n : \A j \in 1 .. 2 : t[i].children[j] \in ChildrenOf(i - 1, n)}

\* model->nodes is NULL in a model without nodes.
PilModels ==
    {[null |-> TRUE, nodes |-> <<>>], [null |-> FALSE, nodes |-> <<>>]}
        \cup {[null |-> FALSE, nodes |-> t] : t \in UNION {RenderTrees(n) : n \in 1 .. MaxNodes}}

\* node->contents
ContentsOf(nodes, r) ==
    IF r.kind = "leaf" THEN TreeLeafs[r.idx + 1].contents ELSE nodes[r.idx + 1].contents

DotProduct(a, b) == a[1] * b[1] + a[2] * b[2] + a[3] * b[3]

\* d = DotProduct(p, plane->normal) - plane->dist
PlaneDistance(pt, plane) == DotProduct(pt, plane.normal) - plane.dist

\* The test that sends a point on the plane to children[0].
FrontSideOrOn(d) == d >= 0

\* if (d > 0)
FrontSide(d) == d > 0

LeafInit ==
    /\ pilModel \in PilModels
    /\ pilPoint \in TreePoints
    /\ pilNode = LeafRef(-1)
    /\ pilPath = <<>>
    /\ pilPc = "call"

LeafIdle ==
    /\ pilModel = [null |-> TRUE, nodes |-> <<>>]
    /\ pilPoint = <<0, 0, 0>>
    /\ pilNode = LeafRef(-1)
    /\ pilPath = <<>>
    /\ pilPc = "idle"

\* if (!model || !model->nodes) Sys_Error
PointInLeafBadModel ==
    /\ pilPc = "call"
    /\ pilModel.null \/ pilModel.nodes = <<>>
    /\ pilPc' = "fatal"
    /\ UNCHANGED <<pilModel, pilPoint, pilNode, pilPath>>
    /\ UNCHANGED leafOthers

\* node = model->nodes
PointInLeafEnter ==
    /\ pilPc = "call"
    /\ ~pilModel.null /\ pilModel.nodes # <<>>
    /\ pilNode' = NodeRef(0)
    /\ pilPath' = <<NodeRef(0)>>
    /\ pilPc' = "loop"
    /\ UNCHANGED <<pilModel, pilPoint>>
    /\ UNCHANGED leafOthers

\* if (node->contents < 0) return (mleaf_t *)node;
PointInLeafReturn ==
    /\ pilPc = "loop"
    /\ ContentsOf(pilModel.nodes, pilNode) < 0
    /\ pilPc' = "returned"
    /\ UNCHANGED <<pilModel, pilPoint, pilNode, pilPath>>
    /\ UNCHANGED leafOthers

\* One pass of the loop on an internal node.
PointInLeafDescend ==
    /\ pilPc = "loop"
    /\ ~(ContentsOf(pilModel.nodes, pilNode) < 0)
    /\ LET n == pilModel.nodes[pilNode.idx + 1]
           d == PlaneDistance(pilPoint, n.plane)
       IN  pilNode' = IF FrontSide(d) THEN n.children[1] ELSE n.children[2]
    /\ pilPath' = Append(pilPath, pilNode')
    /\ UNCHANGED <<pilModel, pilPoint, pilPc>>
    /\ UNCHANGED leafOthers

\* Every move of the path so far went to children[0] for a point in front of
\* the node's plane and to children[1] for a point behind or on it.
PathFollowsSides ==
    \A k \in 1 .. Len(pilPath) - 1 :
        LET n == pilModel.nodes[pilPath[k].idx + 1]
            x == pilPoint[1] * n.plane.normal[1] + pilPoint[2] * n.plane.normal[2]
                     + pilPoint[3] * n.plane.normal[3]
        IN  /\ pilPath[k].kind = "node"
            /\ x > n.plane.dist => pilPath[k + 1] = n.children[1]
            /\ x <= n.plane.dist => pilPath[k + 1] = n.children[2]

\* The first move from a root that splits on x = 0.
SplitOnXAtRoot ==
    (Len(pilPath) >= 2 /\ pilModel.nodes[1].plane = [normal |-> <<1, 0, 0>>, dist |-> 0]) =>
        /\ pilPoint[1] = 1 => pilPath[2] = pilModel.nodes[1].children[1]
        /\ pilPoint[1] = -1 => pilPath[2] = pilModel.nodes[1].children[2]

PointInLeafSafe ==
    /\ PathFollowsSides
    /\ SplitOnXAtRoot
    /\ pilPc = "returned" =>
          /\ pilNode.kind = "leaf"
          /\ pilNode = pilPath[Len(pilPath)]
          /\ pilPath[1] = NodeRef(0)
    /\ pilPc = "fatal" => (pilModel.null \/ pilModel.nodes = <<>>)
    /\ pilPc \in {"loop", "returned"} => (~pilModel.null /\ pilModel.nodes # <<>>)

\* C11: on every tree Mod_PointInLeaf returns, and what it returns is a leaf
\* reached from the root by moving to children[0] where the point lies in
\* front of the node's plane (d > 0) and to children[1] where it lies behind
\* or on it; on the plane x = 0 a point at x = 1 moves to children[0] and one
\* at x = -1 to children[1]; a model without nodes ends in Sys_Error.
C11_PointInLeafReturnsLeaf ==
    /\ []PointInLeafSafe
    /\ <>(pilPc \in {"returned", "fatal"})

\* C11 witness: a point on the plane of the root has been taken down a tree
\* of two nodes to a leaf.
C11_OnPlanePointLocated ==
    /\ pilPc = "returned"
    /\ Len(pilModel.nodes) = 2
    /\ Len(pilPath) = 3
    /\ PlaneDistance(pilPoint, pilModel.nodes[1].plane) = 0

-----------------------------------------------------------------------------
(***************************************************************************)
(* SKIN FLOOD FILL                                                         *)
(***************************************************************************)

\* The greatest width of a skin in the model.
MaxSkinWidth == 2

\* The heights of the skins in the model.
SkinHeights == {1, 2}

FLOODFILL_FIFO_SIZE == 2 ^ 4

FLOODFILL_FIFO_MASK == FLOODFILL_FIFO_SIZE - 1

\* x & FLOODFILL_FIFO_MASK for 0 <= x <= FLOODFILL_FIFO_SIZE
MaskFifo(x) == x % FLOODFILL_FIFO_SIZE

\* The pixel values of the skins; 255 is the transparent colour.
SkinColours == {0, 1, 2, 255}

\* The palette indices that can be opaque black, -1 when none is.
BlackIndices == {-1, 0, 1}

\* filledcolor of lines 1395-1404 for every skin colour.
FilledColourZero(black) == 0

\* filledcolor (lines 1395-1404): the first opaque black of the palette, 0
\* without one.
FilledColour(black) == IF black = -1 THEN 0 ELSE black

\* FLOODFILL_STEP(off, dx, dy) at pixel (x, y): st holds skin, fifo, inpt and
\* fdc.
FLOODFILL_STEP(st, fillcolor, x, y, width, off, dx, dy) ==
    LET pos == x + width * y + off
    IN  IF st.skin[pos] = fillcolor
        THEN [st EXCEPT !.skin[pos] = 255,
                        !.fifo[st.inpt] = [x |-> x + dx, y |-> y + dy],
                        !.inpt = MaskFifo(st.inpt + 1)]
        ELSE IF st.skin[pos] # 255
             THEN [st EXCEPT !.fdc = st.skin[pos]]
             ELSE st

\* One pass of the while loop (lines 1415-1430).
FloodPass(st, fillcolor, filledcolor, width, height) ==
    LET x == st.fifo[st.outpt].x
        y == st.fifo[st.outpt].y
        s0 == [st EXCEPT !.fdc = filledcolor, !.outpt = MaskFifo(st.outpt + 1)]
        s1 == IF x > 0 THEN FLOODFILL_STEP(s0, fillcolor, x, y, width, -1, -1, 0) ELSE s0
        s2 == IF x < width - 1 THEN FLOODFILL_STEP(s1, fillcolor, x, y, width, 1, 1, 0) ELSE s1
        s3 == IF y > 0 THEN FLOODFILL_STEP(s2, fillcolor, x, y, width, -width, 0, -1) ELSE s2
        s4 == IF y < height - 1 THEN FLOODFILL_STEP(s3, fillcolor, x, y, width, width, 0, 1) ELSE s3
    IN  [s4 EXCEPT !.skin[x + width * y] = s4.fdc]

\* The while loop, from the state st on.
RECURSIVE FloodLoop(_, _, _, _, _)
FloodLoop(st, fillcolor, filledcolor, width, height) ==
    IF st.outpt = st.inpt
    THEN st
    ELSE FloodLoop(FloodPass(st, fillcolor, filledcolor, width, height),
                   fillcolor, filledcolor, width, height)

\* skin[] when Mod_FloodFillSkin(skin, width, height) returns.
FloodFilled(pixels, width, height, black) ==
    LET fillcolor == pixels[0]
        filledcolor == FilledColour(black)
    IN  IF fillcolor = filledcolor \/ fillcolor = 255
        THEN pixels
        ELSE FloodLoop([skin |-> pixels,
                        fifo |-> [k \in 0 .. FLOODFILL_FIFO_SIZE - 1 |-> [x |-> 0, y |-> 0]],
                        inpt |-> MaskFifo(0 + 1), outpt |-> 0, fdc |-> filledcolor],
                       fillcolor, filledcolor, width, height).skin

FillInit ==
    /\ skinwidth \in 1 .. MaxSkinWidth
    /\ skinheight \in SkinHeights
    /\ skin \in [0 .. skinwidth * skinheight - 1 -> SkinColours]
    /\ skinAtEntry = skin
    /\ blackIndex \in BlackIndices
    /\ fillPc = "call"

FillIdle ==
    /\ skinwidth = 0
    /\ skinheight = 0
    /\ skin = <<>>
    /\ skinAtEntry = <<>>
    /\ blackIndex = -1
    /\ fillPc = "idle"

\* The call that returns at once: the colour of the first pixel is the
\* filled colour or the transparent one.
FloodFillNothing ==
    /\ fillPc = "call"
    /\ skin[0] = FilledColour(blackIndex) \/ skin[0] = 255
    /\ skin' = FloodFilled(skin, skinwidth, skinheight, blackIndex)
    /\ fillPc' = "returned"
    /\ UNCHANGED <<skinAtEntry, skinwidth, skinheight, blackIndex>>
    /\ UNCHANGED fillOthers

\* The call that fills.
FloodFill ==
    /\ fillPc = "call"
    /\ ~(skin[0] = FilledColour(blackIndex) \/ skin[0] = 255)
    /\ skin' = FloodFilled(skin, skinwidth, skinheight, blackIndex)
    /\ fillPc' = "returned"
    /\ UNCHANGED <<skinAtEntry, skinwidth, skinheight, blackIndex>>
    /\ UNCHANGED fillOthers

\* Every pixel of the image px has the colour c.
Uniform(px, c) == \A k \in DOMAIN px : px[k] = c

\* C12, as stated: when Mod_FloodFillSkin returns from an image whose every
\* pixel had the colour c, every pixel still has the colour c.
C12_UniformSkinUnchanged ==
    fillPc = "returned" =>
        \A c \in SkinColours : Uniform(skinAtEntry, c) => Uniform(skin, c)

\* C12, amended: when Mod_FloodFillSkin returns from an image whose every
\* pixel had the colour c, every pixel still has the colour c if c is the
\* filled colour (the palette's opaque black, or 0) or 255, and every pixel
\* has the filled colour otherwise.
C12_UniformSkinFilled ==
    fillPc = "returned" =>
        \A c \in SkinColours :
            Uniform(skinAtEntry, c) =>
                LET black == IF blackIndex \in SkinColours THEN blackIndex ELSE 0
                IN  IF c = black \/ c = 255
                    THEN Uniform(skin, c)
                    ELSE Uniform(skin, black)

\* C12 witness: a uniform image of more than one row and column, of a colour
\* that is neither the filled colour nor 255, has been through the fill.
C12_UniformSkinThroughFill ==
    /\ fillPc = "returned"
    /\ skinwidth > 1 /\ skinheight > 1
    /\ \E c \in SkinColours \ {255} : Uniform(skinAtEntry, c) /\ ~Uniform(skin, c)

-----------------------------------------------------------------------------
(***************************************************************************)
(* ALIAS MODEL LOADER                                                      *)
(***************************************************************************)

\* sizeof(stverts) / sizeof(stverts[0]), scaled down.
MAXALIASVERTS == 2

\* sizeof(triangles) / sizeof(triangles[0]), scaled down.
MAXALIASTRIS == 2

\* The tallest skin the loader takes, scaled down.
MAX_LBM_HEIGHT == 2

\* The most frames of an alias file in the model.
MaxAliasFrames == 2

\* The capacity of poseverts[] and poseintervals[], scaled down.
MAXALIASFRAMES == 3

AliasVersions == {"ALIAS_VERSION", "other"}

\* The values the counts of the header can have in a file: none, negative,
\* up to the capacity and one above it.
VertCounts == -1 .. MAXALIASVERTS + 1

TriCounts == -1 .. MAXALIASTRIS + 1

FrameCounts == -1 .. MaxAliasFrames

SkinHeightValues == {1, MAX_LBM_HEIGHT, MAX_LBM_HEIGHT + 1}

\* in->numframes of a frame group.
GroupCounts == {-1, 0, 1, 3}

\* What posenum and the hunk hold when a load begins.
StalePosenums == {0, 2}

HunkMarks == {0, 3}

\* *pheader as Hunk_AllocName returns it.
ZeroHeader ==
    [skinheight |-> 0, numverts |-> 0, numtris |-> 0, numframes |-> 0,
     numposes |-> 0, frames |-> <<>>]

AliasInit ==
    /\ hunkLow \in HunkMarks
    /\ aliasStart = 0
    /\ pheader = ZeroHeader
    /\ posenum \in StalePosenums
    /\ stvertWrites = 0
    /\ triWrites = 0
    /\ aliasCache = "NULL"
    /\ aliasPc = "call"

AliasIdle ==
    /\ hunkLow = 0
    /\ aliasStart = 0
    /\ pheader = ZeroHeader
    /\ posenum = 0
    /\ stvertWrites = 0
    /\ triWrites = 0
    /\ aliasCache = "NULL"
    /\ aliasPc = "idle"

\* Lines 1575-1593: start = Hunk_LowMark(), the version test, and the
\* allocation of the working header.
AliasBegin ==
    /\ aliasPc = "call"
    /\ aliasStart' = hunkLow
    /\ \E version \in AliasVersions :
          IF version # "ALIAS_VERSION"
          THEN aliasPc' = "fatal" /\ UNCHANGED hunkLow
          ELSE aliasPc' = "header" /\ hunkLow' = hunkLow + 1
    /\ UNCHANGED <<pheader, posenum, stvertWrites, triWrites, aliasCache>>
    /\ UNCHANGED aliasOthers

\* The tests of lines 1604-1624, in their order, on the fields read so far.
HeaderRejected(h) ==
    \/ h.skinheight > MAX_LBM_HEIGHT
    \/ h.numverts <= 0
    \/ h.numverts > MAXALIASVERTS
    \/ h.numtris <= 0
    \/ h.numframes < 1

\* Lines 1600-1624: the header fields and their tests.  A field read after
\* the test that ends the load is never written.
AliasHeader ==
    /\ aliasPc = "header"
    /\ \E sh \in SkinHeightValues, nv \in VertCounts, nt \in TriCounts, nf \in FrameCounts :
          LET h == [pheader EXCEPT !.skinheight = sh, !.numverts = nv,
                                   !.numtris = nt, !.numframes = nf]
              written ==
                  IF sh > MAX_LBM_HEIGHT
                  THEN [pheader EXCEPT !.skinheight = sh]
                  ELSE IF nv <= 0 \/ nv > MAXALIASVERTS
                       THEN [pheader EXCEPT !.skinheight = sh, !.numverts = nv]
                       ELSE IF nt <= 0
                            THEN [pheader EXCEPT !.skinheight = sh, !.numverts = nv,
                                                 !.numtris = nt]
                            ELSE h
          IN  /\ pheader' = written
              /\ aliasPc' = IF HeaderRejected(h) THEN "fatal" ELSE "skins"
    /\ UNCHANGED <<hunkLow, aliasStart, posenum, stvertWrites, triWrites, aliasCache>>
    /\ UNCHANGED aliasOthers

\* Line 1639: Mod_LoadAllSkins, which ends in Sys_Error or returns, having
\* allocated the texels it saves (none in a build that saves none).
AliasSkins ==
    /\ aliasPc = "skins"
    /\ \/ aliasPc' = "fatal" /\ UNCHANGED hunkLow
       \/ aliasPc' = "stverts" /\ \E texels \in {0, 1} : hunkLow' = hunkLow + texels
    /\ UNCHANGED <<aliasStart, pheader, posenum, stvertWrites, triWrites, aliasCache>>
    /\ UNCHANGED aliasOthers

\* Lines 1646-1650: stverts[0 .. numverts - 1].
AliasSTVerts ==
    /\ aliasPc = "stverts"
    /\ stvertWrites' = pheader.numverts
    /\ aliasPc' = "triangles"
    /\ UNCHANGED <<hunkLow, aliasStart, pheader, posenum, triWrites, aliasCache>>
    /\ UNCHANGED aliasOthers

\* Lines 1657-1664: triangles[0 .. numtris - 1].  The writes past the end of
\* triangles[] are undefined: the program crashes or goes on.
AliasTriangles ==
    /\ aliasPc = "triangles"
    /\ triWrites' = pheader.numtris
    /\ \/ aliasPc' = "frames"
       \/ pheader.numtris > MAXALIASTRIS /\ aliasPc' = "crashed"
    /\ posenum' = IF aliasPc' = "frames" THEN 0 ELSE posenum
    /\ UNCHANGED <<hunkLow, aliasStart, pheader, stvertWrites, aliasCache>>
    /\ UNCHANGED aliasOthers

\* The cursor after Mod_LoadAliasGroup has gone through numframes poses.
CursorAfterGroup(cursor, numframes) == IF numframes > 0 THEN cursor + numframes ELSE cursor

\* Mod_LoadAliasFrame on frame i = Len(pheader.frames).
AliasFrameSingle ==
    /\ aliasPc = "frames"
    /\ Len(pheader.frames) < pheader.numframes
    /\ pheader' = [pheader EXCEPT !.frames =
                      Append(@, [group |-> FALSE, count |-> 1,
                                 firstpose |-> posenum, numposes |-> 1])]
    /\ posenum' = posenum + 1
    /\ UNCHANGED <<hunkLow, aliasStart, stvertWrites, triWrites, aliasCache, aliasPc>>
    /\ UNCHANGED aliasOthers

\* Mod_LoadAliasGroup on frame i = Len(pheader.frames); an interval <= 0 ends
\* the load in Sys_Error.
AliasFrameGroup ==
    /\ aliasPc = "frames"
    /\ Len(pheader.frames) < pheader.numframes
    /\ \E numframes \in GroupCounts, badinterval \in BOOLEAN :
          /\ pheader' = [pheader EXCEPT !.frames =
                            Append(@, [group |-> TRUE, count |-> numframes,
                                       firstpose |-> posenum, numposes |-> numframes])]
          /\ IF badinterval /\ numframes > 0
             THEN aliasPc' = "fatal" /\ UNCHANGED posenum
             ELSE /\ posenum' = CursorAfterGroup(posenum, numframes)
                  /\ UNCHANGED aliasPc
    /\ UNCHANGED <<hunkLow, aliasStart, stvertWrites, triWrites, aliasCache>>
    /\ UNCHANGED aliasOthers

\* Lines 1683-1706: numposes, the intervals saved on the hunk, the draw lists.
AliasFramesDone ==
    /\ aliasPc = "frames"
    /\ Len(pheader.frames) >= pheader.numframes
    /\ pheader' = [pheader EXCEPT !.numposes = posenum]
    /\ hunkLow' = hunkLow + 1
    /\ aliasPc' = "cache"
    /\ UNCHANGED <<aliasStart, posenum, stvertWrites, triWrites, aliasCache>>
    /\ UNCHANGED aliasOthers

\* Lines 1709-1715: the hunk is freed to start only after the memcpy.
HunkAtReturn(mark, startmark, allocated) == IF allocated THEN startmark ELSE mark

\* Lines 1709-1716: Cache_AllocPadded, which finds room or does not.
AliasToCache ==
    /\ aliasPc = "cache"
    /\ \E allocated \in BOOLEAN :
          /\ aliasCache' = IF allocated THEN "data" ELSE "NULL"
          /\ hunkLow' = HunkAtReturn(hunkLow, aliasStart, allocated)
    /\ aliasPc' = "returned"
    /\ UNCHANGED <<aliasStart, pheader, posenum, stvertWrites, triWrites>>
    /\ UNCHANGED aliasOthers

\* The sum of numposes over the first n frames.
RECURSIVE SumOfPoses(_, _)
SumOfPoses(frames, n) ==
    IF n = 0 THEN 0 ELSE SumOfPoses(frames, n - 1) + frames[n].numposes

\* The sum of the negative numposes over the first n frames.
RECURSIVE SumOfNegativeCounts(_, _)
SumOfNegativeCounts(frames, n) ==
    IF n = 0
    THEN 0
    ELSE SumOfNegativeCounts(frames, n - 1)
             + (IF frames[n].numposes < 0 THEN frames[n].numposes ELSE 0)

PoseRangesAdd ==
    /\ \A i \in 1 .. Len(pheader.frames) :
          /\ pheader.frames[i].firstpose = SumOfPoses(pheader.frames, i - 1)
          /\ pheader.frames[i].numposes =
                 IF pheader.frames[i].group THEN pheader.frames[i].count ELSE 1
    /\ aliasPc \in {"cache", "returned"} =>
          pheader.numposes = SumOfPoses(pheader.frames, Len(pheader.frames))
    /\ (/\ aliasPc \in {"cache", "returned"}
        /\ Len(pheader.frames) = 2
        /\ ~pheader.frames[1].group
        /\ pheader.frames[2].group /\ pheader.frames[2].count = 3)
          => /\ pheader.numposes = 4
             /\ pheader.frames[1].firstpose = 0
             /\ pheader.frames[2].firstpose = 1

\* C13: in every load, whatever posenum held before it, frame i's firstpose
\* is the sum of numposes of the frames before it, its numposes is 1 for a
\* single frame and the group's count for a group, and pheader->numposes is
\* the sum over all frames (a single frame and a group of 3: [0,1), [1,4), 4).
C13_PoseRangesAddUp == PoseRangesAdd

\* The same for the loads in which no group has a negative count.
C13_PoseRangesAddUpWithoutNegativeCounts ==
    (\A i \in 1 .. Len(pheader.frames) : pheader.frames[i].count >= 0) => PoseRangesAdd

\* A single frame and a group of 3 have been loaded after a load that left
\* posenum at 2.
C13_SingleThenGroupOfThree ==
    /\ aliasPc = "returned"
    /\ Len(pheader.frames) = 2
    /\ ~pheader.frames[1].group
    /\ pheader.frames[2].group /\ pheader.frames[2].count = 3
    /\ pheader.numposes = 4

\* C18: a load that has written a record of stverts[] or triangles[] has a
\* header with 0 < numverts <= MAXALIASVERTS, 0 < numtris <= MAXALIASTRIS and
\* skinheight <= MAX_LBM_HEIGHT (any other header ended it in Sys_Error
\* before), so that every record written lies inside its table.
C18_TablesWrittenWithinCapacity ==
    (stvertWrites > 0 \/ triWrites > 0) =>
        /\ pheader.skinheight <= MAX_LBM_HEIGHT
        /\ pheader.numverts > 0 /\ pheader.numverts <= MAXALIASVERTS
        /\ pheader.numtris > 0 /\ pheader.numtris <= MAXALIASTRIS
        /\ stvertWrites <= MAXALIASVERTS
        /\ triWrites <= MAXALIASTRIS

\* C18, for what the loader does test: the skin height, the vertex count at
\* both ends, and a triangle count that is not positive.
C18_TestedFieldsWithinCapacity ==
    (stvertWrites > 0 \/ triWrites > 0) =>
        /\ pheader.skinheight <= MAX_LBM_HEIGHT
        /\ pheader.numverts > 0 /\ pheader.numverts <= MAXALIASVERTS
        /\ pheader.numtris > 0
        /\ stvertWrites <= MAXALIASVERTS

\* C19: when Mod_LoadAliasModel has returned, the low mark of the hunk is
\* what it was when the load began.
C19_HunkRewoundAtReturn ==
    aliasPc = "returned" => hunkLow = aliasStart

\* C19, for the loads whose cache allocation found room.
C19_HunkRewoundAfterRelocation ==
    (aliasPc = "returned" /\ aliasCache = "data") => hunkLow = aliasStart

\* Frame i was loaded to its end: Sys_Error did not stop the load in it.
FrameLoadedWhole(i) == ~(aliasPc = "fatal" /\ i = Len(pheader.frames))

\* The poses of every frame have been written at indices below cap.
PoseWritesBelow(cap) ==
    \A i \in 1 .. Len(pheader.frames) :
        LET f == pheader.frames[i]
        IN  f.numposes > 0 =>
                /\ f.firstpose < cap
                /\ FrameLoadedWhole(i) => f.firstpose + f.numposes - 1 < cap

\* C22 as stated: in a load whose header passed the tests, every write to
\* poseverts[] and poseintervals[] is at a pose cursor below MAXALIASFRAMES.
C22_PoseCursorBelowCapacity ==
    aliasPc \in {"frames", "cache", "returned", "fatal"} => PoseWritesBelow(MAXALIASFRAMES)

\* What does hold: the cursor is not negative, and at the first write of a
\* frame it is the count of the poses written for the frames before it.
C22_PoseCursorBelowPosesOfFile ==
    \A i \in 1 .. Len(pheader.frames) :
        LET f == pheader.frames[i]
        IN  f.numposes > 0 =>
                /\ f.firstpose = SumOfPoses(pheader.frames, i - 1)
                       - SumOfNegativeCounts(pheader.frames, i - 1)
                /\ f.firstpose >= 0

\* A load has returned after writing the poses of a frame past the end of
\* the tables.
C22_PosesWrittenPastTables ==
    /\ aliasPc = "returned"
    /\ \E i \in 1 .. Len(pheader.frames) :
          pheader.frames[i].firstpose + pheader.frames[i].numposes > MAXALIASFRAMES

-----------------------------------------------------------------------------
(***************************************************************************)
(* SUB-MODELS OF A BRUSH MODEL                                             *)
(***************************************************************************)

\* The dmodel_t records of the files: hull roots, face range, bounds (already
\* spread by Mod_LoadSubmodels) and leaf count.
SubmodelRecords ==
    {[headnode |-> <<h, h + 1>>, firstface |-> f, numfaces |-> 1,
      mins |-> -f - 1, maxs |-> f + 1, visleafs |-> f + 1] : h \in {0, 2}, f \in {0, 3}}

\* The fields of a model_t the loop writes, before it has.
NoBounds ==
    [hulls |-> <<-1, -1>>, firstmodelsurface |-> -1, nummodelsurfaces |-> -1,
     mins |-> 0, maxs |-> 0, numleafs |-> -1]

\* A slot of the registry together with the fields the loop writes.
BrushSlot(slot, b) ==
    [name |-> slot.name, needload |-> slot.needload, type |-> slot.type,
     cache |-> slot.cache, hulls |-> b.hulls,
     firstmodelsurface |-> b.firstmodelsurface, nummodelsurfaces |-> b.nummodelsurfaces,
     mins |-> b.mins, maxs |-> b.maxs, numleafs |-> b.numleafs]

\* Lines 1239-1252: the fields of *mod taken from bm.
BoundsOf(bm) ==
    [hulls |-> bm.headnode, firstmodelsurface |-> bm.firstface,
     nummodelsurfaces |-> bm.numfaces, mins |-> bm.mins, maxs |-> bm.maxs,
     numleafs |-> bm.visleafs]

\* The test of line 1255, had it let the last sub-model through.
ClonesEverySubmodel(i, n) == i < n

\* if (i < mod->numsubmodels - 1)
ClonesNextSubmodel(i, n) == i < n - 1

\* The slot of the model being loaded when the loop begins: Mod_LoadModel has
\* cleared needload, Mod_LoadBrushModel has set the type.
PrimarySlot == BrushSlot([ZeroSlot EXCEPT !.name = <<"a">>], NoBounds)

\* A slot "*1" left by an earlier map, after Mod_ClearAll.
StaleInlineSlot ==
    BrushSlot([ZeroSlot EXCEPT !.name = SubmodelName(1), !.needload = TRUE],
              BoundsOf([headnode |-> <<2, 3>>, firstface |-> 3, numfaces |-> 1,
                        mins |-> -4, maxs |-> 4, visleafs |-> 4]))

\* A slot of another model.
OtherSlot ==
    BrushSlot([ZeroSlot EXCEPT !.name = StoreName(LongName), !.type = "mod_alias"], NoBounds)

\* mod_known and mod when the loop begins.
TablesAtEntry ==
    {[known |-> <<PrimarySlot>>, mod |-> 1],
     [known |-> <<PrimarySlot, StaleInlineSlot>>, mod |-> 1],
     [known |-> <<OtherSlot, PrimarySlot>>, mod |-> 2]}

SubInit ==
    /\ \E t \in TablesAtEntry : mod_known = t.known /\ subMod = t.mod
    /\ regFatal = FALSE
    /\ last = NoCall
    /\ knownAtEntry = mod_known
    /\ submodels \in UNION {[1 .. n -> SubmodelRecords] : n \in 0 .. MaxSubmodels + 1}
    /\ subI = 0
    /\ subPc = "loop"

SubIdle ==
    /\ submodels = <<>>
    /\ subI = 0
    /\ subMod = 0
    /\ knownAtEntry = <<>>
    /\ subPc = "idle"

\* One pass of the loop: the fields of sub-model i go into *mod; unless it is
\* the last, the whole record is copied into the slot "*<i+1>", which is mod
\* from then on.  Mod_FindName ends in Sys_Error when the table is full.
SubmodelPass ==
    /\ subPc = "loop"
    /\ subI < Len(submodels)
    /\ LET bm == submodels[subI + 1]
           k1 == [mod_known EXCEPT ![subMod] = BrushSlot(@, BoundsOf(bm))]
           name == SubmodelName(subI + 1)
           f == Mod_FindName(k1, name)
       IN  IF ~ClonesNextSubmodel(subI, Len(submodels))
           THEN /\ mod_known' = k1
                /\ UNCHANGED <<subMod, subPc, regFatal>>
           ELSE IF f.fatal
                THEN /\ mod_known' = k1
                     /\ subPc' = "fatal"
                     /\ regFatal' = TRUE
                     /\ UNCHANGED subMod
                ELSE /\ mod_known' = [f.known EXCEPT ![f.idx] =
                                         [k1[subMod] EXCEPT !.name = name]]
                     /\ subMod' = f.idx
                     /\ UNCHANGED <<subPc, regFatal>>
    /\ subI' = subI + 1
    /\ UNCHANGED <<submodels, knownAtEntry, last>>
    /\ UNCHANGED subOthers

\* i < mod->numsubmodels fails: Mod_LoadBrushModel returns.
SubmodelsDone ==
    /\ subPc = "loop"
    /\ subI >= Len(submodels)
    /\ subPc' = "returned"
    /\ UNCHANGED <<mod_known, regFatal, last, submodels, subI, subMod, knownAtEntry>>
    /\ UNCHANGED subOthers

\* The index in mod_known of the slot with this name, 0 when there is none.
SlotNamed(known, name) ==
    IF \E i \in 1 .. Len(known) : known[i].name = name
    THEN CHOOSE i \in 1 .. Len(known) : known[i].name = name
    ELSE 0

\* The slot carries the fields of the sub-model record bm and is loaded.
CarriesSubmodel(slot, bm) ==
    /\ slot.hulls = bm.headnode
    /\ slot.firstmodelsurface = bm.firstface
    /\ slot.nummodelsurfaces = bm.numfaces
    /\ slot.mins = bm.mins /\ slot.maxs = bm.maxs
    /\ slot.numleafs = bm.visleafs
    /\ ~slot.needload
    /\ slot.type = "mod_brush"

-----------------------------------------------------------------------------
(***************************************************************************)
(* THE FACES                                                               *)
(***************************************************************************)

\* The vertex positions of the faces: spans of 0, 17 and 272.
FacePositions == {<<x, y, 0>> : x \in {0, 17, 272}, y \in {0, 272}}

\* texture->name of the textures, character by character: two sky names, a
\* name one character short of "sky", two turbulent names (one with "sky"
\* after the star) and a wall.
TextureNames ==
    {<<"s", "k", "y">>, <<"s", "k", "y", "4">>, <<"s", "k">>,
     <<"*", "w">>, <<"*", "s", "k", "y">>, <<"w", "a", "l", "l">>}

\* The character of a C string at offset i: the terminator past its end.
CharAt(s, i) == IF i < Len(s) THEN s[i + 1] ELSE "NUL"

\* Comparing the strings whole, whatever n is: 0 when they are equal.
StrcmpWhole(a, b, n) == IF a = b THEN 0 ELSE 1

\* strncmp(a, b, n): 0 when the first n characters agree, or the strings
\* agree up to a terminator before that.
Strncmp(a, b, n) ==
    IF \A i \in 0 .. n - 1 :
          \/ CharAt(a, i) = CharAt(b, i)
          \/ \E k \in 0 .. i - 1 : CharAt(a, k) = "NUL" /\ CharAt(b, k) = "NUL"
    THEN 0 ELSE 1

FaceInit ==
    /\ faceVerts \in [1 .. 2 -> FacePositions]
    /\ faceEdges \in {<<1, -1>>, <<-1>>}
    /\ faceSide \in {0, 1}
    /\ faceTex \in [vecs : AxisVecs, special : BOOLEAN, name : TextureNames]
    /\ faceSurf = [flags |-> {}, texturemins |-> <<0, 0>>, extents |-> <<0, 0>>]
    /\ facePc = "face"

FaceIdle ==
    /\ faceVerts = <<>>
    /\ faceEdges = <<>>
    /\ faceSide = 0
    /\ faceTex = [vecs |-> <<>>, special |-> FALSE, name |-> <<>>]
    /\ faceSurf = [flags |-> {}, texturemins |-> <<0, 0>>, extents |-> <<0, 0>>]
    /\ facePc = "idle"

\* One pass of the loop of Mod_LoadFaces: the plane side, CalcSurfaceExtents
\* (which may end in Sys_Error), then the drawing flags by the texture name.
LoadFace ==
    /\ facePc = "face"
    /\ LET a0 == AxisExtents(faceVerts, faceEdges, faceTex, 1)
           a1 == AxisExtents(faceVerts, faceEdges, faceTex, 2)
           planeback == IF faceSide # 0 THEN {"SURF_PLANEBACK"} ELSE {}
       IN  IF a0.bad
           THEN /\ faceSurf' = [flags |-> planeback,
                                texturemins |-> <<a0.texturemins, 0>>,
                                extents |-> <<a0.extents, 0>>]
                /\ facePc' = "fatal"
           ELSE IF a1.bad
           THEN /\ faceSurf' = [flags |-> planeback,
                                texturemins |-> <<a0.texturemins, a1.texturemins>>,
                                extents |-> <<a0.extents, a1.extents>>]
                /\ facePc' = "fatal"
           ELSE IF Strncmp(faceTex.name, <<"s", "k", "y">>, 3) = 0
           THEN /\ faceSurf' = [flags |-> planeback \cup {"SURF_DRAWSKY", "SURF_DRAWTILED"},
                                texturemins |-> <<a0.texturemins, a1.texturemins>>,
                                extents |-> <<a0.extents, a1.extents>>]
                /\ facePc' = "loaded"
           ELSE IF Strncmp(faceTex.name, <<"*">>, 1) = 0
           THEN /\ faceSurf' = [flags |-> planeback \cup {"SURF_DRAWTURB", "SURF_DRAWTILED"},
                                texturemins |-> <<-8192, -8192>>,
                                extents |-> <<16384, 16384>>]
                /\ facePc' = "loaded"
           ELSE /\ faceSurf' = [flags |-> planeback,
                                texturemins |-> <<a0.texturemins, a1.texturemins>>,
                                extents |-> <<a0.extents, a1.extents>>]
                /\ facePc' = "loaded"
    /\ UNCHANGED <<faceVerts, faceEdges, faceSide, faceTex>>
    /\ UNCHANGED faceOthers

\* The name of the texture begins with the characters of prefix.
NameBegins(prefix) ==
    /\ Len(faceTex.name) >= Len(prefix)
    /\ SubSeq(faceTex.name, 1, Len(prefix)) = prefix

SkyFace == NameBegins(<<"s", "k", "y">>)

TurbulentFace == NameBegins(<<"*">>)

ExtentsForced ==
    /\ faceSurf.extents = <<16384, 16384>>
    /\ faceSurf.texturemins = <<-8192, -8192>>

\* The extents are those the vertices of the face project to.
ExtentsFromVertices ==
    \A j \in 1 .. 2 :
        LET a == AxisExtents(faceVerts, faceEdges, faceTex, j)
        IN  faceSurf.extents[j] = a.extents /\ faceSurf.texturemins[j] = a.texturemins

\* C15 as stated: every special face, sky or turbulent, is loaded, with
\* extents 16384 and texturemins -8192 on both axes.
C15_SpecialFaceExtentsForced ==
    (facePc \in {"loaded", "fatal"} /\ faceTex.special /\ (SkyFace \/ TurbulentFace)) =>
        (facePc = "loaded" /\ ExtentsForced)

\* C15 (amended): a face whose texinfo has TEX_SPECIAL is never rejected; a
\* loaded face has extents 16384 and texturemins -8192 on both axes when its
\* texture name begins with "*"; every other loaded face, a sky face among
\* them, keeps the extents its vertices project to.
C15_TurbulentFaceExtentsForced ==
    /\ (facePc \in {"loaded", "fatal"} /\ faceTex.special) => facePc = "loaded"
    /\ (facePc = "loaded" /\ TurbulentFace) =>
          (ExtentsForced /\ {"SURF_DRAWTURB", "SURF_DRAWTILED"} \subseteq faceSurf.flags)
    /\ (facePc = "loaded" /\ ~TurbulentFace) => ExtentsFromVertices
    /\ (facePc = "loaded" /\ SkyFace) => "SURF_DRAWSKY" \in faceSurf.flags

\* C15 witness: a special turbulent face spanning more than 256 units has
\* been loaded with the forced extents.
C15_WideTurbulentFaceLoaded ==
    /\ facePc = "loaded"
    /\ faceTex.special
    /\ TurbulentFace
    /\ AxisExtents(faceVerts, faceEdges, faceTex, 1).extents > 256
    /\ ExtentsForced

-----------------------------------------------------------------------------
(***************************************************************************)
(* THE SKINS                                                               *)
(***************************************************************************)

\* The most skins of an alias model in the model.
MAX_SKINS == 2

\* sizeof(daliasskintype_t), sizeof(daliasskingroup_t) and
\* sizeof(daliasskininterval_t): one 32-bit field each.
SizeofSkinType == 4

SizeofSkinGroup == 4

SizeofSkinInterval == 4

\* s = pheader->skinwidth * pheader->skinheight
SkinImageBytes == MaxSkinWidth * 2

\* pinskingroup->numskins of the groups of the model.
GroupSkinCounts == 0 .. 5

\* A skin record of the file: one image, or a group of images.
SkinRecords ==
    {[type |-> "ALIAS_SKIN_SINGLE", numskins |-> 1]}
        \cup {[type |-> "ALIAS_SKIN_GROUP", numskins |-> n] : n \in GroupSkinCounts}

\* The texture number GL_LoadTexture gives to sub-image sub of skin i (the
\* image of a single skin is its sub-image 0): one for each name.
TextureHandle(i, sub) == [skin |-> i, sub |-> sub]

\* A slot nothing was stored in.
EmptySlot == TextureHandle(-1, -1)

FloodFillCall(ptr) == [fn |-> "Mod_FloodFillSkin", ptr |-> ptr]

LoadTextureCall(ptr) == [fn |-> "GL_LoadTexture", ptr |-> ptr]

\* Filling a remaining slot with the last texture of the group.
LastOfGroup(j, k) == k - 1

\* gl_texturenum[i][j - k]: the slot a remaining slot j is copied from.
ReplicatedFrom(j, k) == j - k

\* The loop of lines 1496-1512 from j on: the calls made, the slots written
\* and pskintype after it.
RECURSIVE GroupImages(_, _, _, _, _)
GroupImages(i, j, groupskins, fillptr, st) ==
    IF j >= groupskins
    THEN st
    ELSE GroupImages(i, j + 1, groupskins, fillptr,
             [calls |-> st.calls \o <<FloodFillCall(fillptr), LoadTextureCall(st.p)>>,
              slots |-> [st.slots EXCEPT ![(j % 4) + 1] = TextureHandle(i, j)],
              p |-> st.p + SkinImageBytes])

\* The loop of lines 1514-1516 from j on, k being the count of the group.
RECURSIVE ReplicateSlots(_, _, _)
ReplicateSlots(j, k, slots) ==
    IF j >= 4
    THEN slots
    ELSE ReplicateSlots(j + 1, k,
             [slots EXCEPT ![(j % 4) + 1] = slots[ReplicatedFrom(j, k) + 1]])

\* The files: the records numskins announces, none when it is out of range.
SkinsInit ==
    /\ skNumskins \in 0 .. MAX_SKINS + 1
    /\ skFile \in [1 .. (IF skNumskins \in 1 .. MAX_SKINS THEN skNumskins ELSE 0) -> SkinRecords]
    /\ skPskintype = 0
    /\ skSkin = -1
    /\ skI = 0
    /\ skCalls = <<>>
    /\ gl_texturenum = [i \in 1 .. MAX_SKINS |-> [j \in 1 .. 4 |-> EmptySlot]]
    /\ skPc = "call"

SkinsIdle ==
    /\ skNumskins = 0
    /\ skFile = <<>>
    /\ skPskintype = 0
    /\ skSkin = -1
    /\ skI = 0
    /\ skCalls = <<>>
    /\ gl_texturenum = <<>>
    /\ skPc = "idle"

\* Lines 1452-1455 with numskins out of range: Sys_Error.
SkinsBadCount ==
    /\ skPc = "call"
    /\ skNumskins < 1 \/ skNumskins > MAX_SKINS
    /\ skSkin' = skPskintype + SizeofSkinType
    /\ skPc' = "fatal"
    /\ UNCHANGED <<skNumskins, skFile, skPskintype, skI, skCalls, gl_texturenum>>
    /\ UNCHANGED skinsOthers

\* Lines 1452-1459: skin is set, once, and the loop begins.
SkinsEnter ==
    /\ skPc = "call"
    /\ ~(skNumskins < 1 \/ skNumskins > MAX_SKINS)
    /\ skSkin' = skPskintype + SizeofSkinType
    /\ skI' = 0
    /\ skPc' = "loop"
    /\ UNCHANGED <<skNumskins, skFile, skPskintype, skCalls, gl_texturenum>>
    /\ UNCHANGED skinsOthers

\* One pass of the loop over a single skin (lines 1460-1487).
LoadSkinSingle ==
    /\ skPc = "loop"
    /\ skI < skNumskins
    /\ skFile[skI + 1].type = "ALIAS_SKIN_SINGLE"
    /\ LET pixels == skPskintype + SizeofSkinType
       IN  /\ skCalls' = skCalls \o <<FloodFillCall(skSkin), LoadTextureCall(pixels)>>
           /\ gl_texturenum' = [gl_texturenum EXCEPT ![skI + 1] =
                                   [j \in 1 .. 4 |-> TextureHandle(skI, 0)]]
           /\ skPskintype' = pixels + SkinImageBytes
    /\ skI' = skI + 1
    /\ UNCHANGED <<skNumskins, skFile, skSkin, skPc>>
    /\ UNCHANGED skinsOthers

\* One pass of the loop over a skin group (lines 1488-1517).
LoadSkinGroup ==
    /\ skPc = "loop"
    /\ skI < skNumskins
    /\ skFile[skI + 1].type # "ALIAS_SKIN_SINGLE"
    /\ LET groupskins == skFile[skI + 1].numskins
           first == skPskintype + SizeofSkinType + SizeofSkinGroup
                        + groupskins * SizeofSkinInterval
           st == GroupImages(skI, 0, groupskins, skSkin,
                     [calls |-> <<>>, slots |-> gl_texturenum[skI + 1], p |-> first])
           k == IF groupskins > 0 THEN groupskins ELSE 0
       IN  /\ skCalls' = skCalls \o st.calls
           /\ gl_texturenum' = [gl_texturenum EXCEPT ![skI + 1] =
                                   ReplicateSlots(k, k, st.slots)]
           /\ skPskintype' = st.p
    /\ skI' = skI + 1
    /\ UNCHANGED <<skNumskins, skFile, skSkin, skPc>>
    /\ UNCHANGED skinsOthers

\* return pskintype
SkinsReturn ==
    /\ skPc = "loop"
    /\ skI >= skNumskins
    /\ skPc' = "returned"
    /\ UNCHANGED <<skNumskins, skFile, skPskintype, skSkin, skI, skCalls, gl_texturenum>>
    /\ UNCHANGED skinsOthers

\* C16 as stated: the block of every texture upload is the block the flood
\* fill was called on immediately before it.
C16_UploadedBlockWasFilled ==
    \A c \in 1 .. Len(skCalls) :
        skCalls[c].fn = "GL_LoadTexture" =>
            /\ c > 1
            /\ skCalls[c - 1].fn = "Mod_FloodFillSkin"
            /\ skCalls[c - 1].ptr = skCalls[c].ptr

\* What does hold: every upload follows a flood fill of the block skin was
\* set to before the loop, the image of the first record when it is single.
C16_FirstBlockFilledEachTime ==
    \A c \in 1 .. Len(skCalls) :
        skCalls[c].fn = "GL_LoadTexture" =>
            /\ c > 1
            /\ skCalls[c - 1] = FloodFillCall(SizeofSkinType)

\* The groups of 1 .. 4 sub-images that have been decoded.
DecodedGroups ==
    {i \in 0 .. skI - 1 :
        /\ skFile[i + 1].type = "ALIAS_SKIN_GROUP"
        /\ skFile[i + 1].numskins \in 1 .. 4}

\* C17 as stated: slot j holds sub-image j for j < n, and the last sub-image
\* for j in n .. 3.
C17_LastSubImageReplicated ==
    \A i \in DecodedGroups :
        LET n == skFile[i + 1].numskins
        IN  \A j \in 0 .. 3 :
                gl_texturenum[i + 1][j + 1]
                    = TextureHandle(i, IF j < n THEN j ELSE n - 1)

\* C17 (amended): slot j holds sub-image j for j < n, and each remaining slot
\* j in n .. 3 holds what slot j - n holds, so that slot j holds sub-image
\* j mod n: the group is repeated from its first sub-image on.
C17_GroupRepeatedInSlots ==
    \A i \in DecodedGroups :
        LET n == skFile[i + 1].numskins
        IN  \A j \in 0 .. 3 :
                /\ gl_texturenum[i + 1][j + 1] = TextureHandle(i, j % n)
                /\ j >= n => gl_texturenum[i + 1][j + 1] = gl_texturenum[i + 1][j - n + 1]

\* C17 witness: a group of three sub-images has been decoded, and slot 3
\* holds its first sub-image.
C17_GroupOfThreeDecoded ==
    \E i \in DecodedGroups :
        /\ skFile[i + 1].numskins = 3
        /\ gl_texturenum[i + 1][4] = TextureHandle(i, 0)
        /\ gl_texturenum[i + 1][3] = TextureHandle(i, 2)

-----------------------------------------------------------------------------
(***************************************************************************)
(* HULL 0                                                                  *)
(***************************************************************************)

\* loadmodel->planes of the trees: x = 0 and y = 0.
HullPlanes == <<[normal |-> <<1, 0, 0>>, dist |-> 0], [normal |-> <<0, 1, 0>>, dist |-> 0]>>

\* in->contents of the leafs, a 32-bit field: CONTENTS_EMPTY, CONTENTS_SOLID
\* and a negative value below the 16-bit range.
LeafContentsValues == {-1, -2, -(2 ^ 15) - 1}

\* The node lumps of n nodes that hold a tree over two leafs: a child is a
\* later node, or -1 - l for leaf l.
NodeLumps(n) ==
    {f \in [1 .. n -> [planenum : 0 .. Len(HullPlanes) - 1,
                       children : [1 .. 2 -> -2 .. n - 1]]] :
        \A i \in 1 .. n : \A j \in 1 .. 2 :
            f[i].children[j] >= 0 => f[i].children[j] > i - 1}

\* Lines 849-853: the child pointer for the index p of the file.
ChildPointer(p) == IF p >= 0 THEN NodeRef(p) ELSE LeafRef(-1 - p)

\* The value a short holds after the assignment of the int x.
ToShort(x) == ((x + 2 ^ 15) % (2 ^ 16)) - 2 ^ 15

\* child->contents
ChildContents(nodes, leafs, r) ==
    IF r.kind = "leaf" THEN leafs[r.idx + 1] ELSE nodes[r.idx + 1].contents

\* Lines 1015-1019: out->children[j], a short, for the child pointer r.
ClipChild(nodes, leafs, r) ==
    IF ChildContents(nodes, leafs, r) < 0
    THEN ToShort(ChildContents(nodes, leafs, r))
    ELSE ToShort(r.idx)

HullInit ==
    /\ h0File \in UNION {NodeLumps(n) : n \in 1 .. MaxNodes}
    /\ h0Leafs \in [1 .. 2 -> LeafContentsValues]
    /\ h0Nodes = <<>>
    /\ h0Clipnodes = <<>>
    /\ h0I = 0
    /\ h0Pc = "nodes"

HullIdle ==
    /\ h0File = <<>>
    /\ h0Leafs = <<>>
    /\ h0Nodes = <<>>
    /\ h0Clipnodes = <<>>
    /\ h0I = 0
    /\ h0Pc = "idle"

\* Mod_LoadNodes, for the fields the hull is made from: contents stays 0, as
\* Hunk_AllocName left it.
LoadNodesForHull ==
    /\ h0Pc = "nodes"
    /\ h0Nodes' = [i \in 1 .. Len(h0File) |->
                      [contents |-> 0,
                       plane |-> h0File[i].planenum,
                       children |-> [j \in 1 .. 2 |-> ChildPointer(h0File[i].children[j])]]]
    /\ h0Pc' = "makehull"
    /\ UNCHANGED <<h0File, h0Leafs, h0Clipnodes, h0I>>
    /\ UNCHANGED hullOthers

\* Lines 1001-1012: the clip nodes are allocated, zeroed.
MakeHull0Enter ==
    /\ h0Pc = "makehull"
    /\ h0Clipnodes' = [i \in 1 .. Len(h0Nodes) |-> [planenum |-> 0, children |-> <<0, 0>>]]
    /\ h0I' = 0
    /\ h0Pc' = "loop"
    /\ UNCHANGED <<h0File, h0Leafs, h0Nodes>>
    /\ UNCHANGED hullOthers

\* One pass of the loop of lines 1012-1021.
MakeHull0Node ==
    /\ h0Pc = "loop"
    /\ h0I < Len(h0Nodes)
    /\ h0Clipnodes' = [h0Clipnodes EXCEPT ![h0I + 1] =
                          [planenum |-> h0Nodes[h0I + 1].plane,
                           children |-> [j \in 1 .. 2 |->
                               ClipChild(h0Nodes, h0Leafs, h0Nodes[h0I + 1].children[j])]]]
    /\ h0I' = h0I + 1
    /\ UNCHANGED <<h0File, h0Leafs, h0Nodes, h0Pc>>
    /\ UNCHANGED hullOthers

MakeHull0Done ==
    /\ h0Pc = "loop"
    /\ h0I >= Len(h0Nodes)
    /\ h0Pc' = "done"
    /\ UNCHANGED <<h0File, h0Leafs, h0Nodes, h0Clipnodes, h0I>>
    /\ UNCHANGED hullOthers

\* The contents of the leaf Mod_PointInLeaf reaches from r.
RECURSIVE LeafContentsFrom(_, _)
LeafContentsFrom(r, pt) ==
    IF ChildContents(h0Nodes, h0Leafs, r) < 0
    THEN ChildContents(h0Nodes, h0Leafs, r)
    ELSE LET node == h0Nodes[r.idx + 1]
         IN  IF FrontSide(PlaneDistance(pt, HullPlanes[node.plane + 1]))
             THEN LeafContentsFrom(node.children[1], pt)
             ELSE LeafContentsFrom(node.children[2], pt)

\* Where the descent of hull 0 from num ends, with the sign convention of
\* Mod_PointInLeaf: a negative number, or a number that is no clip node.
RECURSIVE HullContentsFrom(_, _)
HullContentsFrom(num, pt) ==
    IF num < 0 \/ num >= Len(h0Clipnodes)
    THEN num
    ELSE LET node == h0Clipnodes[num + 1]
         IN  IF FrontSide(PlaneDistance(pt, HullPlanes[node.planenum + 1]))
             THEN HullContentsFrom(node.children[1], pt)
             ELSE HullContentsFrom(node.children[2], pt)

\* Clip node i mirrors render node i.
ClipNodeMirrors(i) ==
    /\ h0Clipnodes[i].planenum = h0Nodes[i].plane
    /\ \A j \in 1 .. 2 :
          LET child == h0Nodes[i].children[j]
          IN  h0Clipnodes[i].children[j]
                  = IF child.kind = "leaf" THEN h0Leafs[child.idx + 1] ELSE child.idx

\* C20 as stated: after the synthesis every clip node mirrors its render
\* node, and for every point the descent of hull 0 ends at the contents of
\* the leaf Mod_PointInLeaf reaches.
C20_Hull0MirrorsRenderTree ==
    h0Pc = "done" =>
        /\ \A i \in 1 .. Len(h0Nodes) : ClipNodeMirrors(i)
        /\ \A pt \in TreePoints :
              HullContentsFrom(0, pt) = LeafContentsFrom(NodeRef(0), pt)

\* What does hold: the same, for trees whose leaf contents fit in 16 bits.
C20_Hull0MirrorsShortContents ==
    (h0Pc = "done" /\ \A l \in 1 .. Len(h0Leafs) : h0Leafs[l] = ToShort(h0Leafs[l])) =>
        /\ \A i \in 1 .. Len(h0Nodes) : ClipNodeMirrors(i)
        /\ \A pt \in TreePoints :
              HullContentsFrom(0, pt) = LeafContentsFrom(NodeRef(0), pt)

\* A hull of two nodes has been made from a tree of two nodes.
C20_TwoNodeHullMade ==
    /\ h0Pc = "done"
    /\ Len(h0Clipnodes) = 2
    /\ h0Nodes[1].children[1] = NodeRef(1)
    /\ h0Clipnodes[1].children[1] = 1

-----------------------------------------------------------------------------
(***************************************************************************)
(* Specifications                                                          *)
(***************************************************************************)

\* The registry.
Init == RegInit /\ LumpIdle /\ BrushIdle /\ VisIdle /\ TexIdle /\ ExtIdle /\ LeafIdle /\ FillIdle /\ AliasIdle /\ SubIdle /\ FaceIdle /\ SkinsIdle /\ HullIdle

Next ==
    \/ Mod_ForName
    \/ Mod_TouchModel
    \/ Mod_ClearAll
    \/ Mod_Extradata
    \/ Cache_Evict

Spec == Init /\ [][Next]_vars

\* The header of a brush model.
InitLumps == LumpInit /\ RegInit /\ BrushIdle /\ VisIdle /\ TexIdle /\ ExtIdle /\ LeafIdle /\ FillIdle /\ AliasIdle /\ SubIdle /\ FaceIdle /\ SkinsIdle /\ HullIdle

NextLumps ==
    \/ CheckVersion
    \/ CheckLumpExtents

SpecLumps == InitLumps /\ [][NextLumps]_vars

\* The lump decoders of a brush model.
InitBrush == BrushInit /\ RegInit /\ LumpIdle /\ VisIdle /\ TexIdle /\ ExtIdle /\ LeafIdle /\ FillIdle /\ AliasIdle /\ SubIdle /\ FaceIdle /\ SkinsIdle /\ HullIdle

NextBrush ==
    \/ Mod_LoadTextures
    \/ Mod_LoadPlanes
    \/ Mod_LoadTexinfo
    \/ Mod_LoadFaces
    \/ Mod_LoadMarksurfaces
    \/ Mod_LoadLeafs
    \/ Mod_LoadNodes

SpecBrush == InitBrush /\ [][NextBrush]_vars

\* The visibility decoder.
InitVis == VisInit /\ RegInit /\ LumpIdle /\ BrushIdle /\ TexIdle /\ ExtIdle /\ LeafIdle /\ FillIdle /\ AliasIdle /\ SubIdle /\ FaceIdle /\ SkinsIdle /\ HullIdle

NextVis ==
    \/ DecompressNoVis
    \/ DecompressEnterLoop
    \/ DecompressCopy
    \/ DecompressZeroRun

SpecVis == InitVis /\ [][NextVis]_vars

\* The animation sequencing of the texture loader.
InitTex == TexInit /\ RegInit /\ LumpIdle /\ BrushIdle /\ VisIdle /\ ExtIdle /\ LeafIdle /\ FillIdle /\ AliasIdle /\ SubIdle /\ FaceIdle /\ SkinsIdle /\ HullIdle

NextTex ==
    \/ SequenceEnd
    \/ SequenceSkip
    \/ SequenceAnimation

SpecTex == InitTex /\ [][NextTex]_vars

\* The surface extents.
InitExt == ExtInit /\ RegInit /\ LumpIdle /\ BrushIdle /\ VisIdle /\ TexIdle /\ LeafIdle /\ FillIdle /\ AliasIdle /\ SubIdle /\ FaceIdle /\ SkinsIdle /\ HullIdle

NextExt ==
    \/ CalcSurfaceExtents

SpecExt == InitExt /\ [][NextExt]_vars

\* Mod_PointInLeaf; the loop is not held up by anything, so it goes on.
InitLeaf == LeafInit /\ RegInit /\ LumpIdle /\ BrushIdle /\ VisIdle /\ TexIdle /\ ExtIdle /\ FillIdle /\ AliasIdle /\ SubIdle /\ FaceIdle /\ SkinsIdle /\ HullIdle

NextLeaf ==
    \/ PointInLeafBadModel
    \/ PointInLeafEnter
    \/ PointInLeafReturn
    \/ PointInLeafDescend

SpecLeaf == InitLeaf /\ [][NextLeaf]_vars

FairSpecLeaf == SpecLeaf /\ WF_vars(NextLeaf)

\* The skin flood fill.
InitFill == FillInit /\ RegInit /\ LumpIdle /\ BrushIdle /\ VisIdle /\ TexIdle /\ ExtIdle /\ LeafIdle /\ AliasIdle /\ SubIdle /\ FaceIdle /\ SkinsIdle /\ HullIdle

NextFill ==
    \/ FloodFillNothing
    \/ FloodFill

SpecFill == InitFill /\ [][NextFill]_vars

\* The alias model loader.
InitAlias == AliasInit /\ RegInit /\ LumpIdle /\ BrushIdle /\ VisIdle /\ TexIdle /\ ExtIdle /\ LeafIdle /\ FillIdle /\ SubIdle /\ FaceIdle /\ SkinsIdle /\ HullIdle

NextAlias ==
    \/ AliasBegin
    \/ AliasHeader
    \/ AliasSkins
    \/ AliasSTVerts
    \/ AliasTriangles
    \/ AliasFrameSingle
    \/ AliasFrameGroup
    \/ AliasFramesDone
    \/ AliasToCache

SpecAlias == InitAlias /\ [][NextAlias]_vars

\* The sub-model loop of a brush model.
InitSub == SubInit /\ LumpIdle /\ BrushIdle /\ VisIdle /\ TexIdle /\ ExtIdle /\ LeafIdle /\ FillIdle /\ AliasIdle /\ FaceIdle /\ SkinsIdle /\ HullIdle

NextSub ==
    \/ SubmodelPass
    \/ SubmodelsDone

SpecSub == InitSub /\ [][NextSub]_vars

\* One face of the face loader.
InitFace == FaceInit /\ RegInit /\ LumpIdle /\ BrushIdle /\ VisIdle /\ TexIdle /\ ExtIdle /\ LeafIdle /\ FillIdle /\ AliasIdle /\ SubIdle /\ SkinsIdle /\ HullIdle

NextFace ==
    \/ LoadFace

SpecFace == InitFace /\ [][NextFace]_vars


\* Mod_LoadAllSkins.
InitSkins == SkinsInit /\ RegInit /\ LumpIdle /\ BrushIdle /\ VisIdle /\ TexIdle /\ ExtIdle /\ LeafIdle /\ FillIdle /\ AliasIdle /\ SubIdle /\ FaceIdle /\ HullIdle

NextSkins ==
    \/ SkinsBadCount
    \/ SkinsEnter
    \/ LoadSkinSingle
    \/ LoadSkinGroup
    \/ SkinsReturn

SpecSkins == InitSkins /\ [][NextSkins]_vars


\* The node loader and the synthesis of hull 0.
InitHull == HullInit /\ RegInit /\ LumpIdle /\ BrushIdle /\ VisIdle /\ TexIdle /\ ExtIdle /\ LeafIdle /\ FillIdle /\ AliasIdle /\ SubIdle /\ FaceIdle /\ SkinsIdle

NextHull ==
    \/ LoadNodesForHull
    \/ MakeHull0Enter
    \/ MakeHull0Node
    \/ MakeHull0Done

SpecHull == InitHull /\ [][NextHull]_vars


=============================================================================
